---- MODULE Spec2Model ----
(***************************************************************************)
(* State-machine model of the simulation core of edgin_around_server:      *)
(* the Scheduler / Runner (src/src/executor.py), the Engine                *)
(* (src/src/engine.py), the entities (src/src/entities.py), their tasks    *)
(* (src/src/tasks.py) and jobs (src/src/jobs.py), the features             *)
(* (src/src/features.py) and the world State (src/src/state.py).           *)
(*                                                                         *)
(* Time is counted in hundredths of a second; `now` is time.monotonic()    *)
(* rounded down to that unit.  Two readings of the monotonic clock never   *)
(* return the same value, so of two scheduler entries with the same moment *)
(* in this unit the one entered first has the smaller moment, and an entry *)
(* whose moment equals `now` is already overdue.                           *)
(***************************************************************************)
EXTENDS Integers, Sequences, FiniteSets, TLC

VARIABLES
    entities,   \* State.entities: entity id -> entity
    tasks,      \* the Task objects that are still referenced: task id -> task
    queue,      \* Scheduler._queue in the order the heap releases it
    thr,        \* per thread: its position in Engine code and its locals
    wire,       \* per thread: the actions it broadcast in its current Engine step
    nextId,     \* ids State.generate_new_entity_id has not drawn yet
    moves,      \* number of client messages read so far
    accepted,   \* number of connections accepted so far
    connected,  \* heroes whose socket is registered with the selector
    started,    \* Runner.target has called Processor.start
    now,        \* time.monotonic()
    hv,         \* a HarvestableFeature on its own
    calls,      \* number of calls made on hv, on State or on the Scheduler directly
    last,       \* the last call made directly: its arguments and what it returned
    defaults    \* the lists that are the default arguments of CraftResult.__init__

vars ==
    <<entities, tasks, queue, thr, wire, nextId, moves, accepted, connected, started, now,
      hv, calls, last, defaults>>

(***************************************************************************)
(* Bounds of the model.                                                    *)
(***************************************************************************)
MaxMoves == 3
MaxHeroes == 1
MaxTime == 20
MaxCalls == 4

(***************************************************************************)
(* Program constants, in hundredths of a second where they are durations.  *)
(***************************************************************************)
NoId == -1
CRAFT_DURATION == 100
HARVEST_DURATION == 100
SWAP_DURATION == 1
TIMEOUT == 2000
REPEAT_INTERVAL == 100
EAT_DELAY == 50
HUNGER_INTERVAL == 100
MOTION_INTERVAL == 10
GROWTH_INTERVAL == 500
WALK_DURATION == 100
STATE_THRESHOLD == 10
WARRIOR_HEALTH == 200
BUSH_HEALTH == 100
SPRUCE_HEALTH == 200
AXE_ATTACK_DAMAGE == 50
AXE_CHOP_DAMAGE == 100
HUNGER_START == 50
HUNGER_MAX == 100
WARRIOR_DROPS == 4
PLANT_DROPS == 3

Threads == {"harbour", "runner"}
Hands == {"LEFT", "RIGHT"}
Places == {"near", "far"}

(***************************************************************************)
(* Entities and their features.                                            *)
(***************************************************************************)
NoEntry == [id |-> NoId, quantity |-> 0]

NumPockets == 1

\* Features.set_performer is called by BerryBush and Warrior only.
IsPerformer(kind) == kind \in {"berry_bush", "warrior"}

\* Features.set_eater / set_inventory are called by Pirate only.
IsEater(kind) == kind = "pirate"

HasInventory(kind) == kind = "pirate"

IsDamageable(kind) == kind \in {"berry_bush", "spruce", "warrior"}

IsHarvestable(kind) == kind = "berry_bush"

IsStateful(kind) == kind = "berry_bush"

IsInventorable(kind) ==
    kind \in {"rocks", "gold", "raw_meat", "log", "axe", "berry", "twig"}

IsStackable(kind) == kind \in {"rocks", "gold", "raw_meat", "berry"}

IsEdible(kind) == kind \in {"raw_meat", "berry"}

IsToolOrWeapon(kind) == kind = "axe"

\* Features._delivery_claims, in the order the set_* methods are called.
DeliveryClaims(kind) ==
    CASE kind = "axe" -> <<"CARGO", "PAIN">>
      [] kind \in {"raw_meat", "berry"} -> <<"FOOD", "CARGO">>
      [] kind \in {"rocks", "gold", "log", "twig"} -> <<"CARGO">>
      [] OTHER -> <<>>

\* Features._absorption_claims.
AbsorptionClaims(kind) ==
    CASE kind = "pirate" -> {"CARGO", "FOOD"}
      [] kind = "warrior" -> {"PAIN"}
      [] kind = "spruce" -> {"PAIN"}
      [] kind = "berry_bush" -> {"PAIN", "HARVEST"}
      [] OTHER -> {}

\* DamageableFeature.damage_variant of the receiver.
DamageVariant(kind) == IF kind = "warrior" THEN "ATTACK" ELSE "CHOP"

\* ToolOrWeaponFeature.get_damage of the Axe.
GetDamage(variant) ==
    CASE variant = "ATTACK" -> AXE_ATTACK_DAMAGE
      [] variant = "CHOP" -> AXE_CHOP_DAMAGE
      [] OTHER -> 0

\* Entity.ESSENCE.
Essence(kind) ==
    CASE kind = "rocks" -> "ROCKS"
      [] kind = "gold" -> "GOLD"
      [] kind = "raw_meat" -> "MEAT"
      [] kind = "log" -> "LOGS"
      [] kind = "axe" -> "TOOL"
      [] kind = "berry" -> "VEGY"
      [] kind \in {"berry_bush", "spruce"} -> "PLANT"
      [] kind \in {"warrior", "pirate"} -> "HERO"
      [] kind = "twig" -> "STICKS"
      [] OTHER -> "VOID"

\* An entity as its constructor leaves it: EmptyTask (task 0), no position when
\* the position passed is "none".  `deaths` counts the DieAndDropTasks its
\* handler has constructed, which the code does not record.
Entity(kind, position) ==
    [kind |-> kind,
     position |-> position,
     task |-> 0,
     health |-> CASE kind = "warrior" -> WARRIOR_HEALTH
                  [] kind = "berry_bush" -> BUSH_HEALTH
                  [] kind = "spruce" -> SPRUCE_HEALTH
                  [] OTHER -> 0,
     amount |-> IF kind = "berry_bush" THEN STATE_THRESHOLD - 1 ELSE 0,
     state_name |-> IF kind = "berry_bush" THEN "default" ELSE "none",
     stack |-> IF IsStackable(kind) THEN 1 ELSE 0,
     stored_by |-> NoId,
     LEFT |-> NoEntry,
     RIGHT |-> NoEntry,
     pockets |-> [i \in 1..NumPockets |-> NoEntry],
     hunger |-> IF kind = "pirate" THEN HUNGER_START ELSE 0,
     deaths |-> 0]

\* State.get_entity(id) is not None.
Exists(ents, id) == id \in DOMAIN ents

\* State.add_entity: entities[id] = entity.
AddEntity(ents, id, e) == [i \in DOMAIN ents \cup {id} |-> IF i = id THEN e ELSE ents[i]]

\* A delete_entity that deletes nothing.
KeepEntity(ents, id) == ents

\* del self.entities[entity_id], for an id that is present.
DelEntity(ents, id) == [i \in DOMAIN ents \ {id} |-> ents[i]]

\* Features.get_quantity.
GetQuantity(e) == IF IsStackable(e.kind) THEN e.stack ELSE 1

\* Entity.as_info: the inventory entry of an entity.
AsInfo(id, e) == [id |-> id, quantity |-> GetQuantity(e)]

(***************************************************************************)
(* Scheduler (executor.py).                                                *)
(***************************************************************************)
JobTrigger(job) == [is |-> "job", job |-> job]

EventTrigger(event) == [is |-> "event", event |-> event]

\* Number of queued entries whose moment is not after `moment`.
RECURSIVE Before(_, _)
Before(q, moment) ==
    IF q = <<>> \/ q[1].moment > moment THEN 0 ELSE 1 + Before(Tail(q), moment)

\* Scheduler.enter at time t: heappush of Event(handle, monotonic() + delay, kwargs).
Enter(q, t, handle, delay, trigger) ==
    LET n == Before(q, t + delay)
        e == [moment |-> t + delay, handle |-> handle, trigger |-> trigger]
    IN  SubSeq(q, 1, n) \o <<e>> \o SubSeq(q, n + 1, Len(q))

\* Scheduler.cancel: drop every entry with the handle, heapify the rest.
Cancel(q, handle) == SelectSeq(q, LAMBDA e : e.handle # handle)

(***************************************************************************)
(* Events, jobs and tasks as objects.                                      *)
(***************************************************************************)
Event(kind, receiver) == [kind |-> kind, receiver |-> receiver]

DamageEvent(receiver, dealer, amount) ==
    [kind |-> "damage", receiver |-> receiver, dealer |-> dealer, amount |-> amount]

HandActivationEvent(receiver, hand, object) ==
    [kind |-> "hand_activation", receiver |-> receiver, hand |-> hand, object |-> object]

InventoryUpdateEvent(receiver, hand, index, variant) ==
    [kind |-> "inventory_update", receiver |-> receiver, hand |-> hand,
     index |-> index, variant |-> variant]

CraftEvent(receiver, assembly) ==
    [kind |-> "craft", receiver |-> receiver, assembly |-> assembly]

\* The kinds of event the entities' handlers distinguish.
EventKinds ==
    {"resume", "finished", "motion_start", "motion_stop", "hand_activation",
     "inventory_update", "craft", "disconnection", "damage", "grow",
     "pick_start", "pick_finish"}

\* A job; `task` is the task that made it (0: none), a link the code does not keep.
NoJob == [kind |-> "none", task |-> 0]

WaitJob(task, duration, events) ==
    [kind |-> "wait", task |-> task, duration |-> duration, events |-> events]

\* WaitJob.and_then: it links a new WaitJob to `job` as its next stage and
\* returns the new one, which has no next stage itself.
AndThen(job, duration, events) == WaitJob(job.task, duration, events)

\* `deadline`: start_time + duration, for a job constructed at time t.
MotionJob(task, t, entity, duration, finish_events) ==
    [kind |-> "motion", task |-> task, entity |-> entity, deadline |-> t + duration,
     finish_events |-> finish_events]

DamageJob(task, dealer, receiver, tool, hand, finish_events) ==
    [kind |-> "damage", task |-> task, dealer |-> dealer, receiver |-> receiver,
     tool |-> tool, hand |-> hand, finish_events |-> finish_events]

DieJob(task, dier) == [kind |-> "die", task |-> task, dier |-> dier]

EatJob(task, eater, hand, food, finish_events) ==
    [kind |-> "eat", task |-> task, eater |-> eater, hand |-> hand, food |-> food,
     finish_events |-> finish_events]

GrowJob(task, grower, interval) ==
    [kind |-> "grow", task |-> task, grower |-> grower, interval |-> interval]

HungerDrainJob(entity) == [kind |-> "hunger", task |-> 0, entity |-> entity]

\* Job.get_start_delay.
GetStartDelay(job) ==
    CASE job.kind = "wait" -> job.duration
      [] job.kind = "motion" -> MOTION_INTERVAL
      [] job.kind = "damage" -> REPEAT_INTERVAL
      [] job.kind = "die" -> 0
      [] job.kind = "eat" -> EAT_DELAY
      [] job.kind = "grow" -> job.interval
      [] job.kind = "hunger" -> HUNGER_INTERVAL
      [] OTHER -> 0

NoAssembly == [recipe_codename |-> "none", sources |-> <<>>]

\* A task object.  started / finished count the calls of start() and finish();
\* early: finish() was called before start().
Task(kind, eid) ==
    [kind |-> kind, eid |-> eid, started |-> 0, finished |-> 0, early |-> FALSE,
     job |-> NoJob, hand |-> "none", what |-> NoId, item |-> NoId,
     receiver |-> NoId, index |-> 0, variant |-> "none", assembly |-> NoAssembly,
     state_name |-> "none", drops |-> "none", ndrops |-> 0, position |-> "none",
     dropped |-> FALSE, eat_end |-> FALSE]

\* An action on the wire: its name, the actor it names, and the call that
\* returned it (task and "finish" / "start", or "job" / "connection").
Action(name, actor, task, from) ==
    [name |-> name, actor |-> actor, task |-> task, from |-> from]

(***************************************************************************)
(* The inventory of a holder (edgin_around_api.inventory.Inventory, kept   *)
(* in the holder's InventoryFeature): two hands and the pockets.           *)
(***************************************************************************)
\* Inventory.get_hand: the id held in the hand, or none.
GetHand(e, hand) == e[hand].id

\* Inventory.get_free_hand(prefered = RIGHT).
GetFreeHand(e) ==
    IF e.RIGHT = NoEntry THEN "RIGHT" ELSE IF e.LEFT = NoEntry THEN "LEFT" ELSE "none"

\* Inventory.store_entry.
StoreEntry(e, hand, entry) == [e EXCEPT ![hand] = entry]

\* Inventory.find_entity_with_entity_id is not None.
InInventory(e, id) ==
    /\ id # NoId
    /\ \/ e.LEFT.id = id
       \/ e.RIGHT.id = id
       \/ \E i \in DOMAIN e.pockets : e.pockets[i].id = id

\* Inventory.remove_with_entity_id.
RemoveWithEntityId(e, id) ==
    [e EXCEPT !.LEFT = IF @.id = id THEN NoEntry ELSE @,
              !.RIGHT = IF @.id = id THEN NoEntry ELSE @,
              !.pockets = [i \in DOMAIN @ |-> IF @[i].id = id THEN NoEntry ELSE @[i]]]

\* Inventory.swap(hand, index).
Swap(e, hand, index) ==
    [e EXCEPT ![hand] = e.pockets[index], !.pockets[index] = e[hand]]

\* The ids some slot of the holder's inventory refers to.
StoredIds(e) ==
    ({e.LEFT.id, e.RIGHT.id} \cup {e.pockets[i].id : i \in DOMAIN e.pockets}) \ {NoId}

(***************************************************************************)
(* Crafting (state.py).                                                    *)
(***************************************************************************)
\* settings.RECIPES: codename -> ingredients (material, value).
Recipes ==
    [axe |-> <<[material |-> "MINERAL", value |-> 2], [material |-> "WOOD", value |-> 1]>>,
     hat |-> <<[material |-> "LEATHER", value |-> 2], [material |-> "ORNAMENT", value |-> 1],
               [material |-> "GADGET", value |-> 1]>>]

\* settings.ENTITIES: the codenames with a registered constructor.
Registered == {"rocks", "gold", "log", "axe", "spruce", "warrior", "pirate"}

\* Ingredient.match_essence.
MatchEssence(material, essence) ==
    \/ material = "MINERAL" /\ essence = "ROCKS"
    \/ material = "WOOD" /\ essence = "LOGS"

RECURSIVE SumQuantity(_)
SumQuantity(sources) ==
    IF sources = <<>> THEN 0 ELSE sources[1].quantity + SumQuantity(Tail(sources))

\* Recipe.validate_assembly: one list of sources per ingredient, whose quantities
\* add up to the ingredient's value.
RecipeValidateAssembly(ingredients, assembly) ==
    /\ Len(assembly.sources) = Len(ingredients)
    /\ \A i \in DOMAIN ingredients :
          SumQuantity(assembly.sources[i]) = ingredients[i].value

\* State.validate_assembly, for the inventory of holder h.
ValidateAssembly(ents, h, assembly) ==
    /\ assembly.recipe_codename \in DOMAIN Recipes
    /\ LET ingredients == Recipes[assembly.recipe_codename]
       IN  /\ RecipeValidateAssembly(ingredients, assembly)
           /\ \A i \in DOMAIN ingredients :
                \A k \in DOMAIN assembly.sources[i] :
                   LET source == assembly.sources[i][k]
                   IN  /\ InInventory(ents[h], source.actor_id)
                       /\ Exists(ents, source.actor_id)
                       /\ MatchEssence(ingredients[i].material,
                                       Essence(ents[source.actor_id].kind))
                       /\ IF IsStackable(ents[source.actor_id].kind)
                          THEN ents[source.actor_id].stack >= source.quantity
                          ELSE source.quantity <= 1

RECURSIVE Flatten(_)
Flatten(lists) == IF lists = <<>> THEN <<>> ELSE lists[1] \o Flatten(Tail(lists))

\* The loop "Deleting ingredients" of State._craft over the sources still to do.
RECURSIVE DeleteIngredients(_, _, _, _)
DeleteIngredients(ents, h, sources, deleted) ==
    IF sources = <<>> THEN [ents |-> ents, deleted |-> deleted, exc |-> "none"]
    ELSE LET id == sources[1].actor_id
         IN  IF ~InInventory(ents[h], id) \/ ~Exists(ents, id)
             THEN [ents |-> ents, deleted |-> deleted, exc |-> "AssertionError"]
             ELSE IF IsStackable(ents[id].kind) /\ ents[id].stack # sources[1].quantity
             THEN DeleteIngredients(
                      [ents EXCEPT ![id].stack = @ - sources[1].quantity],
                      h, Tail(sources), deleted)
             ELSE DeleteIngredients(
                      DelEntity([ents EXCEPT ![h] = RemoveWithEntityId(@, id)], id),
                      h, Tail(sources), Append(deleted, id))

\* Where State._craft stores the new entity: the free hand, if it is inventorable.
StoreCrafted(e, hand, id, new) ==
    IF IsInventorable(new.kind) THEN StoreEntry(e, hand, AsInfo(id, new)) ELSE e

\* State._craft: the entities afterwards, the created and deleted ids, the
\* exception raised ("none": it returned).
Craft(ents, h, assembly, id) ==
    LET free_hand == GetFreeHand(ents[h])
        codename == assembly.recipe_codename
        none == [ents |-> ents, created |-> <<>>, deleted |-> <<>>, exc |-> "none", nid |-> id]
    IN  IF free_hand = "none" THEN none
        ELSE IF codename \notin Registered THEN none
        ELSE LET new == Entity(codename, "none")
                 d == DeleteIngredients(ents, h, Flatten(assembly.sources), <<>>)
             IN  IF d.exc # "none"
                 THEN [ents |-> d.ents, created |-> <<>>, deleted |-> d.deleted,
                       exc |-> d.exc, nid |-> id + 1]
                 ELSE [ents |-> AddEntity(
                                  [d.ents EXCEPT ![h] = StoreCrafted(@, free_hand, id, new)],
                                  id, new),
                       created |-> <<id>>, deleted |-> d.deleted, exc |-> "none",
                       nid |-> id + 1]

\* State.craft_entity.
CraftEntity(ents, h, assembly, id) ==
    IF ValidateAssembly(ents, h, assembly) THEN Craft(ents, h, assembly, id)
    ELSE [ents |-> ents, created |-> <<>>, deleted |-> <<>>, exc |-> "none", nid |-> id]

\* The default arguments "created = list()" and "deleted = list()" of
\* CraftResult.__init__ as the module's import leaves them.
NoLists == [created |-> <<>>, deleted |-> <<>>]

\* The CraftResult a call returns: CraftResult() binds created and deleted to
\* the default lists `res`, which add_for_creation and add_for_deletion append
\* to; c holds what the call appended.
CraftResult(res, c) ==
    [c EXCEPT !.created = res.created \o @, !.deleted = res.deleted \o @]

\* The default lists after old_task.finish of task tid: those of the
\* CraftResult that craft_entity returned to CraftTask.finish.
Appended(res, ents, tks, tid, nid) ==
    IF /\ tks[tid].kind = "craft"
       /\ Exists(ents, tks[tid].eid)
       /\ HasInventory(ents[tks[tid].eid].kind)
    THEN [k \in {"created", "deleted"} |->
             CraftResult(res, CraftEntity(ents, tks[tid].eid, tks[tid].assembly, nid))[k]]
    ELSE res

\* Sizes.BIG // Sizes.SMALL: EntityInfo.calc_max_quantity_for_item_volume of a
\* pocket entry (max_volume BIG) for a stackable item (all are SMALL).
MAX_TARGET_QUANTITY == 5

\* A min that returns its first argument.
MinFirst(a, b) == a

Min(a, b) == IF a < b THEN a ELSE b

Max(a, b) == IF a > b THEN a ELSE b

\* The returns of State.merge_entities before "Calculate new quantities" are
\* all passed.  "type(source_entry) != type(target_entry)" compares the classes
\* of the two inventory entries, which are both the EntityInfo that
\* Entity.as_info constructs, so it is never true.
MergeApplies(ents, h, hand, index) ==
    /\ ents[h][hand] # NoEntry
    /\ ents[h].pockets[index] # NoEntry
    /\ Exists(ents, ents[h][hand].id)
    /\ Exists(ents, ents[h].pockets[index].id)
    /\ IsStackable(ents[ents[h][hand].id].kind)
    /\ IsStackable(ents[ents[h].pockets[index].id].kind)
    /\ IsInventorable(ents[ents[h][hand].id].kind)
    /\ IsInventorable(ents[ents[h].pockets[index].id].kind)

\* State.merge_entities(inventory of h, hand, pocket_index).
MergeEntities(ents, h, hand, index) ==
    LET source_entry == ents[h][hand]
        target_entry == ents[h].pockets[index]
        s == source_entry.id
        t == target_entry.id
    IN  IF source_entry = NoEntry \/ target_entry = NoEntry THEN ents
        ELSE IF ~Exists(ents, s) \/ ~Exists(ents, t) THEN ents
        ELSE IF ~IsStackable(ents[s].kind) \/ ~IsStackable(ents[t].kind) THEN ents
        ELSE IF ~IsInventorable(ents[s].kind) \/ ~IsInventorable(ents[t].kind) THEN ents
        ELSE LET combined == ents[s].stack + ents[t].stack
                 new_target == Min(MAX_TARGET_QUANTITY, combined)
                 new_source == combined - new_target
                 e1 == [ents EXCEPT ![t].stack = new_target,
                                    ![h].pockets[index].quantity = new_target]
             IN  IF new_source > 0
                 THEN [e1 EXCEPT ![s].stack = new_source, ![h][hand].quantity = new_source]
                 ELSE [DelEntity(e1, s) EXCEPT ![h] = RemoveWithEntityId(@, s)]

(***************************************************************************)
(* Features with behaviour (features.py).                                  *)
(***************************************************************************)
\* HarvestableFeature.grow: the feature afterwards.
Grow(h) == [h EXCEPT !.current = Max(h.min, Min(h.current + h.grow, h.max))]

\* HarvestableFeature.harvest: the amount handed to the entity constructor.
HarvestedAmount(h) == Max(0, Min(h.current - h.min, h.pick))

\* HarvestableFeature.harvest: the amount left on the feature.
HarvestLeft(h) == Max(0, h.current - h.pick)

\* HarvestableFeature.harvest: the feature afterwards.
Harvest(h) == [h EXCEPT !.current = HarvestLeft(h)]

BUSH_MIN_AMOUNT == 5
BUSH_MAX_AMOUNT == 20
BUSH_GROW_AMOUNT == 1
BUSH_PICK_AMOUNT == 10

\* The HarvestableFeature of a BerryBush whose current amount is `amount`.
BushHarvestable(amount) ==
    [current |-> amount, min |-> BUSH_MIN_AMOUNT, max |-> BUSH_MAX_AMOUNT,
     grow |-> BUSH_GROW_AMOUNT, pick |-> BUSH_PICK_AMOUNT]

\* A get_state_for_amount whose threshold is one berry late.
GetStateAbove(amount) == IF amount <= STATE_THRESHOLD THEN "bare" ELSE "covered"

\* BerryBush.get_state_for_amount.
GetStateForAmount(amount) == IF amount < STATE_THRESHOLD THEN "bare" ELSE "covered"

\* A handle_damage without the lower bound of 0.0.
HandleDamageUnbounded(health, damage_amount) == health - damage_amount

\* DamageableFeature.handle_damage: the health afterwards.
HandleDamage(health, damage_amount) == Max(0, health - damage_amount)

\* Whether the entity dies of a DamageEvent: "not is_alive", is_alive being
\* "health != 0.0" after handle_damage.
DiesOf(health, damage_amount) == HandleDamage(health, damage_amount) = 0

\* A get_first_absorbed that returns the last claim of the list that is
\* absorbed instead of the first.
GetLastAbsorbed(claims, absorbed) ==
    IF \A k \in DOMAIN claims : claims[k] \notin absorbed THEN "none"
    ELSE claims[CHOOSE k \in DOMAIN claims :
                    /\ claims[k] \in absorbed
                    /\ \A j \in DOMAIN claims : j > k => claims[j] \notin absorbed]

\* Features.get_first_absorbed.
RECURSIVE GetFirstAbsorbed(_, _)
GetFirstAbsorbed(claims, absorbed) ==
    IF claims = <<>> THEN "none"
    ELSE IF claims[1] \in absorbed THEN claims[1]
    ELSE GetFirstAbsorbed(Tail(claims), absorbed)

\* Features.deliver(claim): it asks whether the whole list `claim` is an element
\* of _delivery_claims, which holds single claims.
Deliver(kind, claim) == FALSE

(***************************************************************************)
(* Entity.handle_event of each kind (entities.py).  The new task, if the   *)
(* handler makes one, is object `tid`.                                     *)
(***************************************************************************)
SetTask(ents, tks, id, tid, task) ==
    [ents |-> [ents EXCEPT ![id].task = tid,
                           ![id].deaths = IF task.kind = "die_and_drop" THEN @ + 1 ELSE @],
     tasks |-> [i \in DOMAIN tks \cup {tid} |-> IF i = tid THEN task ELSE tks[i]]]

DieAndDropTask(id, drops, ndrops, position) ==
    [Task("die_and_drop", id) EXCEPT !.drops = drops, !.ndrops = ndrops,
                                     !.position = position, !.job = DieJob(0, id)]

\* The "not is_alive" branch of the DamageEvent handlers.
OnDamage(ents, tks, id, ev, tid, drops, ndrops) ==
    LET hit == [ents EXCEPT ![id].health = HandleDamage(@, ev.amount)]
    IN  IF DiesOf(ents[id].health, ev.amount)
        THEN SetTask(hit, tks, id, tid,
                     DieAndDropTask(id, drops, ndrops, ents[id].position))
        ELSE [ents |-> hit, tasks |-> tks]

PirateHandleEvent(ents, tks, id, ev, tid, t) ==
    CASE ev.kind \in {"finished", "motion_stop", "resume"} ->
            SetTask(ents, tks, id, tid, Task("idle", id))
      [] ev.kind = "motion_start" ->
            SetTask(ents, tks, id, tid,
                    [Task("motion", id) EXCEPT !.job = MotionJob(0, t, id, TIMEOUT, <<>>)])
      [] ev.kind = "hand_activation" ->
            IF GetHand(ents[id], ev.hand) # NoId
            THEN SetTask(ents, tks, id, tid,
                         [Task("use_item", id) EXCEPT !.item = GetHand(ents[id], ev.hand),
                                                      !.receiver = ev.object,
                                                      !.hand = ev.hand])
            ELSE SetTask(ents, tks, id, tid,
                         [Task("harvest", id) EXCEPT !.what = ev.object, !.hand = ev.hand])
      [] ev.kind = "inventory_update" ->
            SetTask(ents, tks, id, tid,
                    [Task("inventory_update", id) EXCEPT !.hand = ev.hand,
                                                         !.index = ev.index,
                                                         !.variant = ev.variant])
      [] ev.kind = "craft" ->
            SetTask(ents, tks, id, tid,
                    [Task("craft", id) EXCEPT !.assembly = ev.assembly])
      [] ev.kind = "disconnection" ->
            SetTask(ents, tks, id, tid, DieAndDropTask(id, "none", 0, "none"))
      [] OTHER -> [ents |-> ents, tasks |-> tks]

WarriorHandleEvent(ents, tks, id, ev, tid) ==
    CASE ev.kind \in {"resume", "finished"} ->
            SetTask(ents, tks, id, tid, Task("walk", id))
      [] ev.kind = "damage" ->
            OnDamage(ents, tks, id, ev, tid, "raw_meat", WARRIOR_DROPS)
      [] OTHER -> [ents |-> ents, tasks |-> tks]

BerryBushHandleEvent(ents, tks, id, ev, tid) ==
    CASE ev.kind \in {"resume", "finished"} ->
            SetTask(ents, tks, id, tid, Task("grow", id))
      [] ev.kind = "grow" ->
            LET new_amount == Grow(BushHarvestable(ents[id].amount)).current
                grown == [ents EXCEPT ![id].amount = new_amount]
            IN  IF GetStateForAmount(new_amount) # ents[id].state_name
                THEN SetTask(grown, tks, id, tid,
                             [Task("state_change", id) EXCEPT
                                 !.state_name = GetStateForAmount(new_amount),
                                 !.job = WaitJob(0, 0, <<Event("finished", id)>>)])
                ELSE [ents |-> grown, tasks |-> tks]
      [] ev.kind = "pick_finish" ->
            IF GetStateForAmount(ents[id].amount) # ents[id].state_name
            THEN SetTask(ents, tks, id, tid,
                         [Task("state_change", id) EXCEPT
                             !.state_name = GetStateForAmount(ents[id].amount),
                             !.job = WaitJob(0, 0, <<Event("finished", id)>>)])
            ELSE SetTask(ents, tks, id, tid, Task("grow", id))
      [] ev.kind = "damage" ->
            OnDamage(ents, tks, id, ev, tid, "twig", PLANT_DROPS)
      [] OTHER -> [ents |-> ents, tasks |-> tks]

SpruceHandleEvent(ents, tks, id, ev, tid) ==
    IF ev.kind = "damage"
    THEN OnDamage(ents, tks, id, ev, tid, "log", PLANT_DROPS)
    ELSE [ents |-> ents, tasks |-> tks]

\* The job a task constructor makes is the task's own (job.task = tid).
OwnJob(r, id, tid) ==
    IF r.ents[id].task = tid /\ r.tasks[tid].job.kind # "none"
    THEN [r EXCEPT !.tasks[tid].job.task = tid]
    ELSE r

\* entity.handle_event(event): the entities and the task objects afterwards.
HandleEvent(ents, tks, id, ev, tid, t) ==
    OwnJob(CASE ents[id].kind = "pirate" -> PirateHandleEvent(ents, tks, id, ev, tid, t)
             [] ents[id].kind = "warrior" -> WarriorHandleEvent(ents, tks, id, ev, tid)
             [] ents[id].kind = "berry_bush" -> BerryBushHandleEvent(ents, tks, id, ev, tid)
             [] ents[id].kind = "spruce" -> SpruceHandleEvent(ents, tks, id, ev, tid)
             [] OTHER -> [ents |-> ents, tasks |-> tks],
           id, tid)

(***************************************************************************)
(* Task.start, Task.get_job and Task.finish of each task (tasks.py).       *)
(* Each returns the world afterwards, the actions returned and the         *)
(* exception raised ("none": the call returned).                           *)
(***************************************************************************)
\* A distance check that every pair of entities passes.
WithinAny(ents, a, b) == TRUE

\* State.calculate_distance(a, b) is not None and not above MAX_DISTANCE.
Within(ents, a, b) ==
    /\ ents[a].position # "none"
    /\ ents[b].position # "none"
    /\ ents[a].position = ents[b].position

\* State.find_closest_delivering_within.
FindClosestDeliveringWithin(ents, reference_id, claim) ==
    LET delivering == {i \in DOMAIN ents :
                          /\ i # reference_id
                          /\ Deliver(ents[i].kind, claim)
                          /\ ents[i].position # "none"
                          /\ ents[reference_id].position # "none"}
        closest == {i \in delivering : Within(ents, reference_id, i)}
    IN  IF ~Exists(ents, reference_id) \/ delivering = {} THEN NoId
        ELSE IF closest # {} THEN CHOOSE i \in closest : \A j \in closest : i <= j
        ELSE CHOOSE i \in delivering : \A j \in delivering : i <= j

\* The loop "for drop in self.drops: state.add_entity(drop)" for n drops.
RECURSIVE AddDrops(_, _, _, _, _)
AddDrops(ents, nid, kind, n, position) ==
    IF n = 0 THEN [ents |-> ents, nid |-> nid]
    ELSE AddDrops(AddEntity(ents, nid, Entity(kind, position)), nid + 1, kind, n - 1, position)

Returned(ents, tks, nid, acts) ==
    [ents |-> ents, tasks |-> tks, nid |-> nid, acts |-> acts, exc |-> "none"]

Raised(ents, tks, nid, exc) ==
    [ents |-> ents, tasks |-> tks, nid |-> nid, acts |-> <<>>, exc |-> exc]

CraftTaskStart(ents, tks, nid, tid) ==
    LET task == tks[tid]
        id == task.eid
    IN  IF ~Exists(ents, id) \/ ~HasInventory(ents[id].kind) THEN Returned(ents, tks, nid, <<>>)
        ELSE IF GetFreeHand(ents[id]) = "none" THEN Returned(ents, tks, nid, <<>>)
        ELSE IF ~ValidateAssembly(ents, id, task.assembly) THEN Returned(ents, tks, nid, <<>>)
        ELSE Returned(ents,
                      [tks EXCEPT ![tid].job =
                          WaitJob(tid, CRAFT_DURATION, <<Event("finished", id)>>)],
                      nid, <<Action("CraftBegin", id, tid, "start")>>)

DieAndDropTaskStart(ents, tks, nid, tid) ==
    LET task == tks[tid]
        id == task.eid
        d == IF task.dropped THEN [ents |-> ents, nid |-> nid]
             ELSE AddDrops(ents, nid, task.drops, task.ndrops, task.position)
    IN  IF ~Exists(ents, id) THEN Returned(ents, tks, nid, <<>>)
        ELSE Returned(d.ents, [tks EXCEPT ![tid].dropped = TRUE], d.nid,
                      <<Action("ActorCreation", id, tid, "start"),
                        Action("ActorDeletion", id, tid, "start")>>)

GrowTaskStart(ents, tks, nid, tid) ==
    LET id == tks[tid].eid
    IN  IF ~Exists(ents, id) \/ ~IsHarvestable(ents[id].kind)
        THEN Returned(ents, tks, nid, <<>>)
        ELSE Returned(ents, [tks EXCEPT ![tid].job = GrowJob(tid, id, GROWTH_INTERVAL)],
                      nid, <<>>)

\* HarvestTask.start: self.job is what and_then returns, the second stage; the
\* WaitJob with the PickStartEvent is referenced by nothing once start returns.
HarvestTaskStart(ents, tks, nid, tid) ==
    LET task == tks[tid]
        who == task.eid
        what == IF task.what = NoId
                THEN FindClosestDeliveringWithin(ents, who, <<"CARGO", "HARVEST">>)
                ELSE task.what
        found == [tks EXCEPT ![tid].what = what]
    IN  IF what = NoId THEN Returned(ents, found, nid, <<>>)
        ELSE IF ~Exists(ents, who) \/ ~Exists(ents, what) THEN Returned(ents, found, nid, <<>>)
        ELSE IF ~Within(ents, who, what) THEN Returned(ents, found, nid, <<>>)
        ELSE Returned(ents,
                      [found EXCEPT ![tid].job =
                          AndThen(WaitJob(tid, 0, <<Event("pick_start", what)>>),
                                  HARVEST_DURATION, <<Event("finished", who)>>)],
                      nid,
                      IF IsInventorable(ents[what].kind)
                      THEN <<Action("PickBegin", who, tid, "start")>>
                      ELSE IF IsHarvestable(ents[what].kind)
                      THEN <<Action("HarvestBegin", who, tid, "start")>>
                      ELSE <<>>)

StateChangeTaskStart(ents, tks, nid, tid) ==
    LET task == tks[tid]
        id == task.eid
    IN  IF ~Exists(ents, id) \/ ~IsStateful(ents[id].kind) THEN Returned(ents, tks, nid, <<>>)
        ELSE Returned([ents EXCEPT ![id].state_name = task.state_name], tks, nid,
                      <<Action("ActorUpdate", id, tid, "start")>>)

UseItemTaskStart(ents, tks, nid, tid) ==
    LET task == tks[tid]
        performer == task.eid
        receiver == IF task.receiver # NoId THEN task.receiver ELSE performer
        set == [tks EXCEPT ![tid].receiver = receiver]
    IN  IF ~Exists(ents, performer) \/ ~Exists(ents, task.item)
        THEN Returned(ents, tks, nid, <<>>)
        ELSE IF ~Exists(ents, receiver) THEN Returned(ents, set, nid, <<>>)
        ELSE LET claim == GetFirstAbsorbed(DeliveryClaims(ents[task.item].kind),
                                           AbsorptionClaims(ents[receiver].kind))
             IN  CASE claim = "PAIN" ->
                        Returned(ents,
                                 [set EXCEPT ![tid].job =
                                     DamageJob(tid, performer, receiver, task.item, task.hand,
                                               <<Event("finished", performer)>>)],
                                 nid, <<>>)
                   [] claim = "FOOD" ->
                        Returned(ents,
                                 [set EXCEPT ![tid].job =
                                     EatJob(tid, performer, task.hand, task.item,
                                            <<Event("finished", performer)>>),
                                            ![tid].eat_end = TRUE],
                                 nid, <<Action("EatBegin", performer, tid, "start")>>)
                   [] OTHER -> Returned(ents, set, nid, <<>>)

\* The call of start() counted on the task (EmptyTask, task 0, is not counted).
CountStart(r, tid) == IF tid = 0 THEN r ELSE [r EXCEPT !.tasks[tid].started = @ + 1]

\* new_task.start(state).
TaskStart(ents, tks, nid, tid) ==
    CountStart(
        CASE tks[tid].kind = "craft" -> CraftTaskStart(ents, tks, nid, tid)
          [] tks[tid].kind = "die_and_drop" -> DieAndDropTaskStart(ents, tks, nid, tid)
          [] tks[tid].kind = "grow" -> GrowTaskStart(ents, tks, nid, tid)
          [] tks[tid].kind = "harvest" -> HarvestTaskStart(ents, tks, nid, tid)
          [] tks[tid].kind = "idle" ->
               Returned(ents, tks, nid, <<Action("Idle", tks[tid].eid, tid, "start")>>)
          [] tks[tid].kind \in {"motion", "walk"} ->
               Returned(ents, tks, nid, <<Action("Motion", tks[tid].eid, tid, "start")>>)
          [] tks[tid].kind = "state_change" -> StateChangeTaskStart(ents, tks, nid, tid)
          [] tks[tid].kind = "use_item" -> UseItemTaskStart(ents, tks, nid, tid)
          [] OTHER -> Returned(ents, tks, nid, <<>>),
        tid)

\* new_task.get_job() at time t.
GetJob(tks, tid, t) ==
    CASE tks[tid].kind = "walk" ->
            MotionJob(tid, t, tks[tid].eid, WALK_DURATION, <<Event("finished", tks[tid].eid)>>)
      [] tks[tid].kind = "inventory_update" ->
            WaitJob(tid, SWAP_DURATION, <<Event("finished", tks[tid].eid)>>)
      [] tks[tid].kind = "idle" -> NoJob
      [] OTHER -> tks[tid].job

\* The return of CraftTask.finish for the CraftResult c.
Crafted(c, tks, id, tid) ==
    IF c.exc # "none" THEN Raised(c.ents, tks, c.nid, c.exc)
    ELSE Returned(c.ents, tks, c.nid,
                  <<Action("ActorCreation", id, tid, "finish"),
                    Action("ActorDeletion", id, tid, "finish"),
                    Action("InventoryUpdate", id, tid, "finish"),
                    Action("CraftEnd", id, tid, "finish")>>)

\* CraftTask.finish.
CraftTaskFinish(ents, tks, nid, tid) ==
    IF ~Exists(ents, tks[tid].eid) \/ ~HasInventory(ents[tks[tid].eid].kind)
    THEN Returned(ents, tks, nid, <<Action("CraftEnd", tks[tid].eid, tid, "finish")>>)
    ELSE Crafted(CraftEntity(ents, tks[tid].eid, tks[tid].assembly, nid),
                 tks, tks[tid].eid, tid)

\* HarvestTask._finish_inventorable(entity, subject) with the task's hand.
FinishInventorable(ents, who, what, hand) ==
    [ents EXCEPT ![who] = StoreEntry(@, hand, AsInfo(what, ents[what])),
                 ![what].stored_by = who,
                 ![what].position = "none"]

\* HarvestTask._finish_harvestable(state, entity, subject): the crop is the
\* Berry that BerryBush.generate_yields constructs at the bush's position.
FinishHarvestable(ents, nid, who, what, hand) ==
    LET h == BushHarvestable(ents[what].amount)
        crop == [Entity("berry", ents[what].position) EXCEPT !.stack = HarvestedAmount(h)]
        harvested == [ents EXCEPT ![what].amount = Harvest(h).current]
    IN  IF HarvestedAmount(h) > 0
        THEN [ents |-> [AddEntity(harvested, nid, crop) EXCEPT
                           ![who] = StoreEntry(@, hand, AsInfo(nid, crop))],
              nid |-> nid + 1, crops |-> 1]
        ELSE [ents |-> harvested, nid |-> nid, crops |-> 0]

\* A HarvestTask.finish whose job answers is_complete() with True: it goes on
\* to _finish_complete and stores an inventorable subject in the task's hand.
HarvestTaskFinishComplete(ents, tks, nid, tid) ==
    IF tks[tid].job.kind = "none" \/ tks[tid].what = NoId THEN Returned(ents, tks, nid, <<>>)
    ELSE IF ~Exists(ents, tks[tid].eid) \/ ~Exists(ents, tks[tid].what)
    THEN Returned(ents, tks, nid, <<>>)
    ELSE IF ~HasInventory(ents[tks[tid].eid].kind) \/ ~Within(ents, tks[tid].eid, tks[tid].what)
    THEN Returned(ents, tks, nid, <<>>)
    ELSE IF IsInventorable(ents[tks[tid].what].kind)
    THEN Returned(FinishInventorable(ents, tks[tid].eid, tks[tid].what, tks[tid].hand),
                  tks, nid,
                  <<Action("PickEnd", tks[tid].eid, tid, "finish"),
                    Action("InventoryUpdate", tks[tid].eid, tid, "finish")>>)
    ELSE Returned(ents, tks, nid, <<>>)

\* HarvestTask.finish: Job has no method is_complete, so the call on a job
\* that is set raises AttributeError.
HarvestTaskFinish(ents, tks, nid, tid) ==
    IF tks[tid].job.kind # "none"
    THEN Raised(ents, tks, nid, "AttributeError")
    ELSE Returned(ents, tks, nid, <<>>)

InventoryUpdateTaskFinish(ents, tks, nid, tid) ==
    LET task == tks[tid]
        id == task.eid
    IN  IF ~Exists(ents, id) \/ ~HasInventory(ents[id].kind)
        THEN Returned(ents, tks, nid, <<>>)
        ELSE Returned(CASE task.variant = "SWAP" ->
                             [ents EXCEPT ![id] = Swap(@, task.hand, task.index)]
                        [] task.variant = "MERGE" ->
                             MergeEntities(ents, id, task.hand, task.index)
                        [] OTHER -> ents,
                      tks, nid, <<Action("InventoryUpdate", id, tid, "finish")>>)

\* Entity.move_by: an entity with a position ends at place p.
MoveBy(ents, id, p) ==
    IF ents[id].position # "none" THEN [ents EXCEPT ![id].position = p] ELSE ents

\* MotionTask.finish, the entity moving to place p.
MotionTaskFinish(ents, tks, nid, tid, p) ==
    LET id == tks[tid].eid
    IN  IF tks[tid].job.kind = "none" \/ ~Exists(ents, id)
        THEN Raised(ents, tks, nid, "AssertionError")
        ELSE IF ents[id].position = "none"
        THEN Raised(ents, tks, nid, "AssertionError")
        ELSE Returned(MoveBy(ents, id, p), tks, nid,
                      <<Action("Localization", id, tid, "finish")>>)

\* A WalkTask whose finish returns no action.
WalkTaskFinishSilent(ents, tks, nid, tid) == Returned(ents, tks, nid, <<>>)

WalkTaskFinish(ents, tks, nid, tid) ==
    LET id == tks[tid].eid
    IN  IF ~Exists(ents, id) THEN Raised(ents, tks, nid, "AssertionError")
        ELSE IF ents[id].position = "none" THEN Raised(ents, tks, nid, "AssertionError")
        ELSE Returned(ents, tks, nid, <<Action("Localization", id, tid, "finish")>>)

\* The call of finish() counted on the task; `early`: it had not been started.
CountFinish(r, tid, unstarted) ==
    IF tid = 0 THEN r
    ELSE [r EXCEPT !.tasks[tid].finished = @ + 1, !.tasks[tid].early = @ \/ unstarted]

\* old_task.finish(state); a MotionTask moves its entity to place p.
TaskFinish(ents, tks, nid, tid, p) ==
    CountFinish(
        CASE tks[tid].kind = "craft" -> CraftTaskFinish(ents, tks, nid, tid)
          [] tks[tid].kind = "harvest" -> HarvestTaskFinish(ents, tks, nid, tid)
          [] tks[tid].kind = "inventory_update" ->
               InventoryUpdateTaskFinish(ents, tks, nid, tid)
          [] tks[tid].kind = "motion" -> MotionTaskFinish(ents, tks, nid, tid, p)
          [] tks[tid].kind = "use_item" ->
               Returned(ents, tks, nid,
                        IF tks[tid].eat_end
                        THEN <<Action("EatEnd", tks[tid].eid, tid, "finish")>>
                        ELSE <<>>)
          [] tks[tid].kind = "walk" -> WalkTaskFinish(ents, tks, nid, tid)
          [] OTHER -> Returned(ents, tks, nid, <<>>),
        tid, tks[tid].started = 0)

(***************************************************************************)
(* Job.execute of each job (jobs.py): the entities afterwards, the         *)
(* JobResult (actions, events, repeat) and the exception raised.           *)
(***************************************************************************)
JobResult(ents, acts, events, again, repeat) ==
    [ents |-> ents, acts |-> acts, events |-> events, again |-> again,
     repeat |-> repeat, exc |-> "none"]

\* A DamageJob that asks to be repeated also when its dealer, receiver or tool
\* is missing, and emits no finish event then.
DamageJobForever(ents, job) ==
    IF \/ ~Exists(ents, job.dealer)
       \/ ~Exists(ents, job.receiver)
       \/ ~Exists(ents, job.tool)
    THEN JobResult(ents, <<>>, <<>>, TRUE, REPEAT_INTERVAL)
    ELSE JobResult(ents,
                   <<Action("Damage", job.dealer, job.task, "job")>>,
                   <<DamageEvent(job.receiver, job.dealer,
                                 GetDamage(DamageVariant(ents[job.receiver].kind)))>>,
                   TRUE, REPEAT_INTERVAL)

DamageJobExecute(ents, job) ==
    IF \/ ~Exists(ents, job.dealer)
       \/ ~Exists(ents, job.receiver)
       \/ ~Exists(ents, job.tool)
    THEN JobResult(ents, <<>>, job.finish_events, FALSE, 0)
    ELSE IF \/ ~HasInventory(ents[job.dealer].kind)
            \/ ~IsDamageable(ents[job.receiver].kind)
            \/ ~IsToolOrWeapon(ents[job.tool].kind)
    THEN JobResult(ents, <<>>, job.finish_events, FALSE, 0)
    ELSE JobResult(ents,
                   <<Action("Damage", job.dealer, job.task, "job")>>,
                   <<DamageEvent(job.receiver, job.dealer,
                                 GetDamage(DamageVariant(ents[job.receiver].kind)))>>,
                   TRUE, REPEAT_INTERVAL)

\* DieJob.execute: "del self.entities[dier_id]" raises KeyError for a missing id.
DieJobExecute(ents, job) ==
    IF ~Exists(ents, job.dier)
    THEN [JobResult(ents, <<>>, <<>>, FALSE, 0) EXCEPT !.exc = "KeyError"]
    ELSE JobResult(DelEntity(ents, job.dier), <<>>, <<>>, FALSE, 0)

BERRY_NUTRIENTS == 5
MEAT_NUTRIENTS == 50

\* EdibleFeature.get_nutrients().hunger
Nutrients(kind) == IF kind = "berry" THEN BERRY_NUTRIENTS ELSE MEAT_NUTRIENTS

EatJobExecute(ents, job) ==
    IF ~Exists(ents, job.eater) \/ ~Exists(ents, job.food)
    THEN JobResult(ents, <<>>, job.finish_events, FALSE, 0)
    ELSE IF \/ ~IsEater(ents[job.eater].kind)
            \/ ~HasInventory(ents[job.eater].kind)
            \/ ~IsEdible(ents[job.food].kind)
    THEN JobResult(ents, <<>>, job.finish_events, FALSE, 0)
    ELSE JobResult(
             DelEntity([ents EXCEPT
                           ![job.eater].hunger =
                               @ + Nutrients(ents[job.food].kind) * GetQuantity(ents[job.food]),
                           ![job.eater] = StoreEntry(@, job.hand, NoEntry)],
                       job.food),
             <<Action("InventoryUpdate", job.eater, job.task, "job"),
               Action("ActorDeletion", job.food, job.task, "job"),
               Action("StatUpdate", job.eater, job.task, "job")>>,
             <<>>, FALSE, 0)

\* A HungerDrainJob that asks to be repeated also when its entity is missing.
HungerDrainJobForever(ents, job) ==
    IF ~Exists(ents, job.entity) THEN JobResult(ents, <<>>, <<>>, TRUE, HUNGER_INTERVAL)
    ELSE IF ~IsEater(ents[job.entity].kind) THEN JobResult(ents, <<>>, <<>>, FALSE, 0)
    ELSE JobResult([ents EXCEPT ![job.entity].hunger = Max(@ - 1, 0)],
                   <<Action("StatUpdate", job.entity, job.task, "job")>>,
                   <<>>, TRUE, HUNGER_INTERVAL)

HungerDrainJobExecute(ents, job) ==
    IF ~Exists(ents, job.entity) THEN JobResult(ents, <<>>, <<>>, FALSE, 0)
    ELSE IF ~IsEater(ents[job.entity].kind) THEN JobResult(ents, <<>>, <<>>, FALSE, 0)
    ELSE JobResult([ents EXCEPT ![job.entity].hunger = Max(@ - 1, 0)],
                   <<Action("StatUpdate", job.entity, job.task, "job")>>,
                   <<>>, TRUE, HUNGER_INTERVAL)

\* MotionJob.execute at time t, the entity moving to place p.
MotionJobExecute(ents, job, p, t) ==
    IF ~Exists(ents, job.entity) THEN JobResult(ents, <<>>, job.finish_events, FALSE, 0)
    ELSE IF job.deadline <= t
    THEN JobResult(MoveBy(ents, job.entity, p), <<>>, job.finish_events, FALSE, 0)
    ELSE JobResult(MoveBy(ents, job.entity, p), <<>>, <<>>, TRUE, MOTION_INTERVAL)

\* job.execute(state).
JobExecute(ents, job, p, t) ==
    CASE job.kind = "damage" -> DamageJobExecute(ents, job)
      [] job.kind = "die" -> DieJobExecute(ents, job)
      [] job.kind = "eat" -> EatJobExecute(ents, job)
      [] job.kind = "grow" ->
            JobResult(ents, <<>>, <<Event("grow", job.grower)>>, TRUE, job.interval)
      [] job.kind = "hunger" -> HungerDrainJobExecute(ents, job)
      [] job.kind = "motion" -> MotionJobExecute(ents, job, p, t)
      [] job.kind = "wait" -> JobResult(ents, <<>>, job.events, FALSE, 0)
      [] OTHER -> JobResult(ents, <<>>, <<>>, FALSE, 0)

(***************************************************************************)
(* The two threads that call the Engine: the Harbour's (harbour.py) and    *)
(* the Runner's (executor.py).  The Engine takes no lock, so a thread's    *)
(* step is a sequence of separate steps: handle_event of the entity, then  *)
(* finish of the old task, then start of the new one, then get_job with    *)
(* the scheduler's cancel and enter.                                       *)
(***************************************************************************)
NoEvent == Event("none", NoId)

\* A thread outside the Engine.  `moment` is the local of Scheduler.enter.
Idle ==
    [pc |-> "idle", event |-> NoEvent, entity |-> NoId, old |-> 0, new |-> 0,
     job |-> NoJob, handle |-> NoId, exc |-> "none", moment |-> 0]

\* A thread that an exception has left.
Dead(exc) == [Idle EXCEPT !.pc = "raised", !.exc = exc]

\* A gateway that puts the actions of a later call ahead of those on the wire.
BroadcastAhead(w, acts) == acts \o w

\* gateway.broadcast_action for each of the actions, in order.
Broadcast(w, acts) == w \o acts

\* The task ids some entity, thread or scheduled job still refers to.
Referenced(ents, q, th) ==
    {0} \cup {ents[i].task : i \in DOMAIN ents}
        \cup {th[t].old : t \in Threads} \cup {th[t].new : t \in Threads}
        \cup {th[t].job.task : t \in Threads}
        \cup {q[k].trigger.job.task : k \in {j \in DOMAIN q : q[j].trigger.is = "job"}}

\* The task objects left once the unreferenced ones are collected.
Collect(ents, tks, q, th) ==
    [i \in DOMAIN tks \cap Referenced(ents, q, th) |-> tks[i]]

\* The identity of the next task object constructed.
NewTid(tks) == CHOOSE i \in 1..(Cardinality(DOMAIN tks) + 1) :
                  /\ i \notin DOMAIN tks
                  /\ \A j \in 1..(i - 1) : j \in DOMAIN tks

\* An engine that enters the events of a JobResult with the delay of a
\* repeated job instead of 0.0.
RECURSIVE EnterEventsLate(_, _, _)
EnterEventsLate(q, t, events) ==
    IF events = <<>> THEN q
    ELSE EnterEventsLate(Enter(q, t, NoId, REPEAT_INTERVAL, EventTrigger(events[1])),
                         t, Tail(events))

\* scheduler.enter(None, 0.0, trigger=event) for each event of a JobResult.
RECURSIVE EnterEvents(_, _, _)
EnterEvents(q, t, events) ==
    IF events = <<>> THEN q
    ELSE EnterEvents(Enter(q, t, NoId, 0, EventTrigger(events[1])), t, Tail(events))

\* The thread after entity.handle_event returned r: on to old_task.finish
\* when the entity's task is another one than `old`.
Compared(th, r, id, old, tid) ==
    IF r.ents[id].task # old
    THEN [th EXCEPT !.pc = "finish", !.entity = id, !.old = old, !.new = tid]
    ELSE Idle

\* An Engine._handle_event that broadcasts an IdleAction for a receiver that is
\* not in State.
EvHandleLoud(t) ==
    /\ thr[t].pc = "event"
    /\ IF ~Exists(entities, thr[t].event.receiver)
       THEN /\ thr' = [thr EXCEPT ![t] = Idle]
            /\ wire' = [wire EXCEPT ![t] =
                           Broadcast(@, <<Action("Idle", thr[t].event.receiver, 0, "start")>>)]
            /\ UNCHANGED <<entities, tasks>>
       ELSE \E r \in {HandleEvent(entities, tasks, thr[t].event.receiver, thr[t].event,
                                  NewTid(tasks), now)} :
               /\ entities' = r.ents
               /\ thr' = [thr EXCEPT ![t] =
                             Compared(@, r, thr[t].event.receiver,
                                      entities[thr[t].event.receiver].task, NewTid(tasks))]
               /\ tasks' = Collect(entities', r.tasks, queue, thr')
               /\ wire' = wire
    /\ UNCHANGED <<queue, nextId, moves, accepted, connected, started, now, hv, defaults, calls, last>>

\* Engine._handle_event up to the comparison of the old and the new task.
EvHandle(t) ==
    /\ thr[t].pc = "event"
    /\ IF ~Exists(entities, thr[t].event.receiver)
       THEN /\ thr' = [thr EXCEPT ![t] = Idle]
            /\ UNCHANGED <<entities, tasks>>
       ELSE \E r \in {HandleEvent(entities, tasks, thr[t].event.receiver, thr[t].event,
                                  NewTid(tasks), now)} :
               /\ entities' = r.ents
               /\ thr' = [thr EXCEPT ![t] =
                             Compared(@, r, thr[t].event.receiver,
                                      entities[thr[t].event.receiver].task, NewTid(tasks))]
               /\ tasks' = Collect(entities', r.tasks, queue, thr')
    /\ UNCHANGED <<queue, wire, nextId, moves, accepted, connected, started, now, hv, defaults, calls, last>>

\* "for action in old_task.finish(self.state): broadcast_action(action)".
EvFinish(t) ==
    /\ thr[t].pc = "finish"
    /\ \E p \in IF tasks[thr[t].old].kind = "motion" THEN Places ELSE {"near"} :
          \E r \in {TaskFinish(entities, tasks, nextId, thr[t].old, p)} :
             /\ entities' = r.ents
             /\ nextId' = r.nid
             /\ thr' = [thr EXCEPT ![t] =
                           IF r.exc # "none" THEN Dead(r.exc) ELSE [@ EXCEPT !.pc = "start"]]
             /\ wire' = [wire EXCEPT ![t] = Broadcast(@, r.acts)]
             /\ tasks' = Collect(entities', r.tasks, queue, thr')
    /\ defaults' = Appended(defaults, entities, tasks, thr[t].old, nextId)
    /\ UNCHANGED <<queue, moves, accepted, connected, started, now, hv, calls, last>>

\* "for action in new_task.start(self.state): broadcast_action(action)".
EvStart(t) ==
    /\ thr[t].pc = "start"
    /\ \E r \in {TaskStart(entities, tasks, nextId, thr[t].new)} :
          /\ entities' = r.ents
          /\ nextId' = r.nid
          /\ thr' = [thr EXCEPT ![t] =
                        IF r.exc # "none" THEN Dead(r.exc) ELSE [@ EXCEPT !.pc = "schedule"]]
          /\ wire' = [wire EXCEPT ![t] = Broadcast(@, r.acts)]
          /\ tasks' = Collect(entities', r.tasks, queue, thr')
    /\ UNCHANGED <<queue, moves, accepted, connected, started, now, hv, defaults, calls, last>>

\* scheduler.cancel(entity id), then scheduler.enter of next_job if there is one.
Scheduled(q, id, next_job, t) ==
    IF next_job.kind = "none" THEN Cancel(q, id)
    ELSE Enter(Cancel(q, id), t, id, GetStartDelay(next_job), JobTrigger(next_job))

\* new_task.get_job(), scheduler.cancel(entity id), scheduler.enter of the job.
EvSchedule(t) ==
    /\ thr[t].pc = "schedule"
    /\ queue' = Scheduled(queue, thr[t].entity, GetJob(tasks, thr[t].new, now), now)
    /\ thr' = [thr EXCEPT ![t] = Idle]
    /\ tasks' = Collect(entities, tasks, queue', thr')
    /\ UNCHANGED <<entities, wire, nextId, moves, accepted, connected, started, now, hv, defaults, calls, last>>

\* The scheduler's queue after job.perform returned r: its events entered,
\* then the job again if it asked to be repeated.
Performed(q, r, handle, job, t) ==
    IF r.again
    THEN Enter(EnterEvents(q, t, r.events), t, handle, r.repeat, JobTrigger(job))
    ELSE EnterEvents(q, t, r.events)

\* Engine._handle_job(handle, job) of the Runner's thread.
JobPerform ==
    /\ thr["runner"].pc = "job"
    /\ \E p \in IF thr["runner"].job.kind = "motion" THEN Places ELSE {"near"} :
          \E r \in {JobExecute(entities, thr["runner"].job, p, now)} :
             /\ entities' = r.ents
             /\ wire' = [wire EXCEPT !["runner"] = Broadcast(@, r.acts)]
             /\ IF r.exc # "none"
                THEN /\ thr' = [thr EXCEPT !["runner"] = Dead(r.exc)]
                     /\ queue' = queue
                ELSE /\ thr' = [thr EXCEPT !["runner"] = Idle]
                     /\ queue' = Performed(queue, r, thr["runner"].handle,
                                           thr["runner"].job, now)
    /\ tasks' = Collect(entities', tasks, queue', thr')
    /\ UNCHANGED <<nextId, moves, accepted, connected, started, now, hv, defaults, calls, last>>

(***************************************************************************)
(* Engine.run as one uninterrupted call, as Engine.start and               *)
(* Engine.handle_connection make it.  A world w holds the entities, the    *)
(* task objects, the ids not drawn yet, the scheduler's queue, the actions *)
(* broadcast and the exception raised.                                     *)
(***************************************************************************)
World(ents, tks, nid, q, w, exc) ==
    [ents |-> ents, tasks |-> tks, nid |-> nid, queue |-> q, wire |-> w, exc |-> exc]

\* Engine._handle_event from new_task.start, which returned s, to its end.
WholeStarted(w, id, tid, acts, s, t) ==
    IF s.exc # "none"
    THEN World(s.ents, s.tasks, s.nid, w.queue, Broadcast(w.wire, acts), s.exc)
    ELSE World(s.ents, s.tasks, s.nid,
               Scheduled(w.queue, id, GetJob(s.tasks, tid, t), t),
               Broadcast(Broadcast(w.wire, acts), s.acts), "none")

\* Engine._handle_event from old_task.finish, which returned f, to its end.
WholeFinished(w, id, tid, f, t) ==
    IF f.exc # "none" THEN World(f.ents, f.tasks, f.nid, w.queue, w.wire, f.exc)
    ELSE WholeStarted(w, id, tid, f.acts, TaskStart(f.ents, f.tasks, f.nid, tid), t)

\* Engine._handle_event from entity.handle_event, which returned h, to its end.
WholeHandled(w, id, tid, h, t) ==
    IF h.ents[id].task = w.ents[id].task
    THEN [w EXCEPT !.ents = h.ents, !.tasks = h.tasks]
    ELSE WholeFinished(w, id, tid,
                       TaskFinish(h.ents, h.tasks, w.nid, w.ents[id].task,
                                  w.ents[id].position), t)

\* Engine._handle_event(event) at time t.
HandleEventWhole(w, ev, t) ==
    IF w.exc # "none" \/ ~Exists(w.ents, ev.receiver) THEN w
    ELSE WholeHandled(w, ev.receiver, NewTid(w.tasks),
                      HandleEvent(w.ents, w.tasks, ev.receiver, ev, NewTid(w.tasks), t), t)

\* Engine._handle_job from job.perform, which returned r, to its end.
WholePerformed(w, r, handle, job, t) ==
    IF r.exc # "none" THEN [w EXCEPT !.ents = r.ents, !.exc = r.exc]
    ELSE [w EXCEPT !.ents = r.ents,
                   !.wire = Broadcast(@, r.acts),
                   !.queue = Performed(@, r, handle, job, t)]

\* Engine._handle_job(handle, job) at time t, once self.scheduler is assigned.
HandleJobWhole(w, handle, job, t) ==
    IF w.exc # "none" THEN w
    ELSE WholePerformed(w, JobExecute(w.ents, job, w.ents[job.entity].position, t),
                        handle, job, t)

\* "if entity.features.eater is not None: self.run(HungerDrainJob(entity))".
HandleEater(w, id, t) ==
    IF IsEater(w.ents[id].kind) THEN HandleJobWhole(w, NoId, HungerDrainJob(id), t) ELSE w

\* "if entity.features.performer is not None: self.run(ResumeEvent(...))".
HandlePerformer(w, id, t) ==
    IF IsPerformer(w.ents[id].kind) THEN HandleEventWhole(w, Event("resume", id), t) ELSE w

\* Engine._handle_entity(entity) at time t.
HandleEntity(w, id, t) == HandleEater(HandlePerformer(w, id, t), id, t)

\* Engine.start: _handle_entity for the entities, in the order of the dict.
RECURSIVE EngineStart(_, _, _)
EngineStart(w, ids, t) ==
    IF ids = {} THEN w
    ELSE LET id == CHOOSE i \in ids : \A j \in ids : i <= j
         IN  EngineStart(HandleEntity(w, id, t), ids \ {id}, t)

(***************************************************************************)
(* The Runner's thread (Runner.target).                                    *)
(***************************************************************************)
\* processor.start(scheduler), before the loop.
RunnerStart ==
    /\ thr["runner"].pc = "init"
    /\ \E w \in {EngineStart(World(entities, tasks, nextId, queue, <<>>, "none"),
                            DOMAIN entities, now)} :
          /\ entities' = w.ents
          /\ nextId' = w.nid
          /\ queue' = w.queue
          /\ wire' = [wire EXCEPT !["runner"] = w.wire]
          /\ thr' = [thr EXCEPT !["runner"] = IF w.exc # "none" THEN Dead(w.exc) ELSE Idle]
          /\ tasks' = Collect(entities', w.tasks, queue', thr')
    /\ started' = TRUE
    /\ UNCHANGED <<moves, accepted, connected, now, hv, defaults, calls, last>>

\* "if len(scheduler._queue) < 1: break".
RunnerExit ==
    /\ thr["runner"].pc = "idle"
    /\ started
    /\ queue = <<>>
    /\ thr' = [thr EXCEPT !["runner"] = [Idle EXCEPT !.pc = "exited"]]
    /\ UNCHANGED <<entities, tasks, queue, wire, nextId, moves, accepted, connected, started,
                   now, hv, defaults, calls, last>>

\* heappop of the first entry once its moment has passed; processor.run begins.
RunnerPop ==
    /\ thr["runner"].pc = "idle"
    /\ started
    /\ queue # <<>>
    /\ queue[1].moment <= now
    /\ queue' = Tail(queue)
    /\ thr' = [thr EXCEPT !["runner"] =
                  IF queue[1].trigger.is = "job"
                  THEN [Idle EXCEPT !.pc = "job", !.job = queue[1].trigger.job,
                                    !.handle = queue[1].handle]
                  ELSE [Idle EXCEPT !.pc = "event", !.event = queue[1].trigger.event]]
    /\ wire' = [wire EXCEPT !["runner"] = <<>>]
    /\ UNCHANGED <<entities, tasks, nextId, moves, accepted, connected, started, now, hv, defaults, calls, last>>

\* time.sleep(delay): the clock reaches the moment of the first entry, as
\* long as that is not after `limit`.  The steps of the threads take no time.
Sleep(limit) ==
    /\ queue # <<>>
    /\ queue[1].moment > now
    /\ queue[1].moment <= limit
    /\ \A t \in Threads : thr[t].pc \in {"idle", "exited", "raised"}
    /\ now' = queue[1].moment
    /\ UNCHANGED <<entities, tasks, queue, thr, wire, nextId, moves, accepted, connected,
                   started, hv, defaults, calls, last>>

Tick == Sleep(MaxTime)

(***************************************************************************)
(* The Harbour's thread (EventAcceptor.process, EventListener.process).    *)
(* Clients connect once Engine.start has assigned self.scheduler.          *)
(***************************************************************************)
\* The messages of Engine.handle_connection after _handle_entity(hero), in
\* order: send_actor_creation of the actors listed before the hero was added,
\* broadcast_actor_creation([hero]), send_configuration, deliver_inventory_update
\* (one sent, one broadcast).  "send": to the hero's client only.
ConnectionActions(hero) ==
    <<Action("ActorCreation", NoId, 0, "send"),
      Action("ActorCreation", hero, 0, "connection"),
      Action("Configuration", hero, 0, "send"),
      Action("InventoryUpdate", hero, 0, "send"),
      Action("InventoryUpdate", hero, 0, "connection")>>

\* Engine.handle_connection: the hero appears at the place "near".
Connect ==
    /\ thr["harbour"].pc = "idle"
    /\ started
    /\ accepted < MaxHeroes
    /\ accepted' = accepted + 1
    /\ \E w \in {HandleEntity(World(AddEntity(entities, nextId, Entity("pirate", "near")),
                                     tasks, nextId + 1, queue, <<>>, "none"),
                               nextId, now)} :
          /\ entities' = w.ents
          /\ nextId' = w.nid
          /\ wire' = [wire EXCEPT !["harbour"] =
                          IF w.exc # "none" THEN w.wire
                          ELSE Broadcast(w.wire, ConnectionActions(nextId))]
          /\ queue' = w.queue
          /\ thr' = [thr EXCEPT !["harbour"] = IF w.exc # "none" THEN Dead(w.exc) ELSE Idle]
          /\ connected' = IF w.exc # "none" THEN connected ELSE connected \cup {nextId}
          /\ tasks' = Collect(entities', w.tasks, queue', thr')
    /\ UNCHANGED <<moves, started, now, hv, defaults, calls, last>>

\* The assemblies a client sends in a CraftMove.
Assemblies(ids) ==
    {[recipe_codename |-> "axe",
      sources |-> << <<[actor_id |-> a, quantity |-> 2]>>,
                     <<[actor_id |-> b, quantity |-> 1]>> >>] : a \in ids, b \in ids}

\* The events event_from_move makes of the moves of hero h's client.
InputEvents(h, objects, ids) ==
    {Event("motion_start", h), Event("motion_stop", h)}
        \cup {HandActivationEvent(h, "RIGHT", o) : o \in objects}
        \cup {InventoryUpdateEvent(h, "RIGHT", 1, v) : v \in {"SWAP", "MERGE"}}
        \cup {CraftEvent(h, a) : a \in Assemblies(ids)}

\* EventListener._process_message: Engine.handle_event(event) begins.
Move ==
    /\ thr["harbour"].pc = "idle"
    /\ started
    /\ moves < MaxMoves
    /\ moves' = moves + 1
    /\ \E h \in connected :
          \E ev \in InputEvents(h, (DOMAIN entities \ {h}) \cup {NoId}, {1}) :
             thr' = [thr EXCEPT !["harbour"] = [Idle EXCEPT !.pc = "event", !.event = ev]]
    /\ wire' = [wire EXCEPT !["harbour"] = <<>>]
    /\ UNCHANGED <<entities, tasks, queue, nextId, accepted, connected, started, now, hv, defaults, calls, last>>

\* EventListener.process on a closed socket: Engine.handle_disconnection begins.
Disconnect ==
    /\ thr["harbour"].pc = "idle"
    /\ started
    /\ \E h \in connected :
          /\ connected' = connected \ {h}
          /\ thr' = [thr EXCEPT !["harbour"] =
                        [Idle EXCEPT !.pc = "event", !.event = Event("disconnection", h)]]
    /\ wire' = [wire EXCEPT !["harbour"] = <<>>]
    /\ UNCHANGED <<entities, tasks, queue, nextId, moves, accepted, started, now, hv, defaults, calls, last>>

(***************************************************************************)
(* The server: Server.__init__ with a generated world, then Server.run.    *)
(***************************************************************************)
\* WorldGenerator.generate_basic: no entities.
BasicWorld == [i \in {} |-> Entity("void", "none")]

\* WorldGenerator.generate: of its entities an Axe away from the place where
\* heroes appear and a Warrior within reach of it.
GeneratedWorld ==
    [i \in {1, 2} |-> IF i = 1 THEN Entity("axe", "far") ELSE Entity("warrior", "near")]

\* The threads before Runner.start and Harbour.start.
ThreadsAtStart == [t \in Threads |-> IF t = "runner" THEN [Idle EXCEPT !.pc = "init"] ELSE Idle]

NoFeature == [current |-> 0, min |-> 0, max |-> 0, grow |-> 0, pick |-> 0]

\* No call made yet.  hand, index: the arguments of merge_entities; moment,
\* prev: the deadline of the entry popped and the latest deadline popped before.
NoCall ==
    [op |-> "none", assembly |-> NoAssembly, before |-> BasicWorld, valid |-> FALSE,
     created |-> <<>>, deleted |-> <<>>, exc |-> "none", hand |-> "none", index |-> 0,
     moment |-> 0, prev |-> 0]

Init ==
    /\ entities \in {BasicWorld, GeneratedWorld}
    /\ tasks = [i \in {0} |-> Task("empty", NoId)]
    /\ queue = <<>>
    /\ thr = ThreadsAtStart
    /\ wire = [t \in Threads |-> <<>>]
    /\ nextId = 3
    /\ moves = 0
    /\ accepted = 0
    /\ connected = {}
    /\ started = FALSE
    /\ now = 0
    /\ hv = NoFeature
    /\ calls = 0
    /\ last = NoCall
    /\ defaults = NoLists

Next ==
    \/ RunnerStart
    \/ RunnerExit
    \/ RunnerPop
    \/ JobPerform
    \/ \E t \in Threads : EvHandle(t)
    \/ \E t \in Threads : EvFinish(t)
    \/ \E t \in Threads : EvStart(t)
    \/ \E t \in Threads : EvSchedule(t)
    \/ Connect
    \/ Move
    \/ Disconnect
    \/ Tick

Spec == Init /\ [][Next]_vars


(***************************************************************************)
(* The Engine on a State built by the constructors, as the tests build it: *)
(* two heroes, each with an Axe in the right hand, and one damageable      *)
(* entity next to them.  The heroes' clients activate the hand on it.      *)
(***************************************************************************)
MaxStrikes == 2
DuelMaxTime == 200

Wielders == {3, 4}
Target == 5

\* A Pirate whose inventory got store_entry(Hand.RIGHT, axe.as_info()).
Wielder(axe) == StoreEntry(Entity("pirate", "near"), "RIGHT", AsInfo(axe, Entity("axe", "none")))

\* State([axe, axe, hero, hero, target]).
DuelWorld(kind) ==
    [i \in 1..5 |->
        CASE i \in {1, 2} -> [Entity("axe", "none") EXCEPT !.stored_by = i + 2]
          [] i \in Wielders -> Wielder(i - 2)
          [] OTHER -> Entity(kind, "near")]

DuelInit ==
    /\ entities \in {DuelWorld(kind) : kind \in {"berry_bush", "spruce", "warrior"}}
    /\ tasks = [i \in {0} |-> Task("empty", NoId)]
    /\ queue = <<>>
    /\ thr = ThreadsAtStart
    /\ wire = [t \in Threads |-> <<>>]
    /\ nextId = 6
    /\ moves = 0
    /\ accepted = 0
    /\ connected = {}
    /\ started = FALSE
    /\ now = 0
    /\ hv = NoFeature
    /\ calls = 0
    /\ last = NoCall
    /\ defaults = NoLists

\* Engine.handle_event(HandActivationEvent(hero, RIGHT, target)) begins.
Strike ==
    /\ thr["harbour"].pc = "idle"
    /\ started
    /\ moves < MaxStrikes
    /\ moves' = moves + 1
    /\ \E h \in Wielders :
          thr' = [thr EXCEPT !["harbour"] =
                     [Idle EXCEPT !.pc = "event",
                                  !.event = HandActivationEvent(h, "RIGHT", Target)]]
    /\ wire' = [wire EXCEPT !["harbour"] = <<>>]
    /\ UNCHANGED <<entities, tasks, queue, nextId, accepted, connected, started, now, hv, defaults, calls, last>>

DuelTick == Sleep(DuelMaxTime)

DuelNext ==
    \/ RunnerStart
    \/ RunnerPop
    \/ JobPerform
    \/ \E t \in Threads : EvHandle(t)
    \/ \E t \in Threads : EvFinish(t)
    \/ \E t \in Threads : EvStart(t)
    \/ \E t \in Threads : EvSchedule(t)
    \/ Strike
    \/ DuelTick

DuelSpec == DuelInit /\ [][DuelNext]_vars

(***************************************************************************)
(* The server with an empty world and one client that connects, sends one  *)
(* MotionStartMove and then nothing more, for as long as MotionTask.TIMEOUT *)
(* and a little longer.                                                    *)
(***************************************************************************)
MaxMotions == 1
MotionMaxTime == 2100

TimeoutInit ==
    /\ Init
    /\ entities = BasicWorld

\* EventListener._process_message for a MotionStartMove:
\* Engine.handle_event(MotionStartEvent(hero, bearing)) begins.
MotionMove ==
    /\ thr["harbour"].pc = "idle"
    /\ started
    /\ moves < MaxMotions
    /\ moves' = moves + 1
    /\ \E h \in connected :
          thr' = [thr EXCEPT !["harbour"] =
                     [Idle EXCEPT !.pc = "event", !.event = Event("motion_start", h)]]
    /\ wire' = [wire EXCEPT !["harbour"] = <<>>]
    /\ UNCHANGED <<entities, tasks, queue, nextId, accepted, connected, started, now, hv,
                   defaults, calls, last>>

TimeoutTick == Sleep(MotionMaxTime)

TimeoutNext ==
    \/ RunnerStart
    \/ RunnerExit
    \/ RunnerPop
    \/ JobPerform
    \/ \E t \in Threads : EvHandle(t)
    \/ \E t \in Threads : EvFinish(t)
    \/ \E t \in Threads : EvStart(t)
    \/ \E t \in Threads : EvSchedule(t)
    \/ Connect
    \/ MotionMove
    \/ TimeoutTick

TimeoutSpec == TimeoutInit /\ [][TimeoutNext]_vars

(***************************************************************************)
(* The Engine on a State built by the constructors, as the tests of the    *)
(* hero build it: a hero whose right hand is empty or holds an item, and   *)
(* one other entity next to the hero, away from it or without a position.  *)
(* The hero's client activates the right hand on some object, and in the   *)
(* end it disconnects.                                                     *)
(***************************************************************************)
MaxActivations == 2
HeroMaxTime == 1100

\* An id that no entity of the world has.
Strangers == {0}

\* State([hero, item, other]): hero 1, with entity 2 of kind `item` in the
\* right hand if item is not "none" (then entity 2 is a Rocks away from the
\* hero), and entity 3 of kind `kind` at `place`.
HeroWorld(item, kind, place) ==
    [i \in {1, 2, 3} |->
        CASE i = 1 ->
                IF item = "none" THEN Entity("pirate", "near")
                ELSE StoreEntry(Entity("pirate", "near"), "RIGHT",
                                AsInfo(2, Entity(item, "none")))
          [] i = 2 ->
                IF item = "none" THEN Entity("rocks", "far")
                ELSE [Entity(item, "none") EXCEPT !.stored_by = 1]
          [] OTHER -> Entity(kind, place)]

HeroInit ==
    /\ entities \in {HeroWorld(item, kind, place) :
                        item \in {"none", "axe", "berry", "rocks"},
                        kind \in {"rocks", "berry_bush", "spruce"},
                        place \in Places}
                    \cup {HeroWorld("none", "rocks", "none")}
    /\ tasks = [i \in {0} |-> Task("empty", NoId)]
    /\ queue = <<>>
    /\ thr = ThreadsAtStart
    /\ wire = [t \in Threads |-> <<>>]
    /\ nextId = 4
    /\ moves = 0
    /\ accepted = 1
    /\ connected = {1}
    /\ started = FALSE
    /\ now = 0
    /\ hv = NoFeature
    /\ calls = 0
    /\ last = NoCall
    /\ defaults = NoLists

\* EventListener._process_message for a HandActivationMove with the right
\* hand: Engine.handle_event(HandActivationEvent(hero, RIGHT, object)) begins.
\* The object is an entity, none, or an id that no entity has.
Activate ==
    /\ thr["harbour"].pc = "idle"
    /\ started
    /\ moves < MaxActivations
    /\ moves' = moves + 1
    /\ \E h \in connected :
          \E o \in (DOMAIN entities \ {h}) \cup {NoId} \cup Strangers :
             thr' = [thr EXCEPT !["harbour"] =
                        [Idle EXCEPT !.pc = "event",
                                     !.event = HandActivationEvent(h, "RIGHT", o)]]
    /\ wire' = [wire EXCEPT !["harbour"] = <<>>]
    /\ UNCHANGED <<entities, tasks, queue, nextId, accepted, connected, started, now, hv,
                   defaults, calls, last>>

HeroTick == Sleep(HeroMaxTime)

HeroNext ==
    \/ RunnerStart
    \/ RunnerExit
    \/ RunnerPop
    \/ JobPerform
    \/ \E t \in Threads : EvHandle(t)
    \/ \E t \in Threads : EvFinish(t)
    \/ \E t \in Threads : EvStart(t)
    \/ \E t \in Threads : EvSchedule(t)
    \/ Activate
    \/ Disconnect
    \/ HeroTick

HeroSpec == HeroInit /\ [][HeroNext]_vars

(***************************************************************************)
(* The Scheduler on its own, called by the two threads that call it in the *)
(* server: the Runner's, which pops an entry and enters others while it    *)
(* processes it, and the Harbour's, which enters and cancels.  Scheduler.  *)
(* enter reads the clock before it takes the lock, so the Harbour's enter  *)
(* is two steps, and time passes between any two steps.                    *)
(***************************************************************************)
MaxClock == 3
MaxDelay == 2

SchedHandles == {NoId, 1}

SchedInit ==
    /\ queue = <<>>
    /\ now = 0
    /\ thr = [t \in Threads |-> Idle]
    /\ calls = 0
    /\ last = NoCall
    /\ defaults = NoLists
    /\ entities = BasicWorld
    /\ tasks = [i \in {0} |-> Task("empty", NoId)]
    /\ wire = [t \in Threads |-> <<>>]
    /\ nextId = 1
    /\ moves = 0
    /\ accepted = 0
    /\ connected = {}
    /\ started = TRUE
    /\ hv = NoFeature

\* scheduler.enter(handle, delay, trigger=...) called by the Runner's thread.
EnterCall ==
    /\ calls < MaxCalls
    /\ calls' = calls + 1
    /\ \E handle \in SchedHandles :
          \E delay \in 0..MaxDelay :
             queue' = Enter(queue, now, handle, delay, JobTrigger(NoJob))
    /\ UNCHANGED <<entities, tasks, thr, wire, nextId, moves, accepted, connected, started,
                   now, hv, defaults, last>>

\* Scheduler.enter called by the Harbour's thread, up to the lock:
\* "moment = time.monotonic() + delay".
EnterRead ==
    /\ thr["harbour"].pc = "idle"
    /\ calls < MaxCalls
    /\ calls' = calls + 1
    /\ \E handle \in SchedHandles :
          \E delay \in 0..MaxDelay :
             thr' = [thr EXCEPT !["harbour"] =
                        [Idle EXCEPT !.pc = "enter", !.handle = handle,
                                     !.moment = now + delay]]
    /\ UNCHANGED <<entities, tasks, queue, wire, nextId, moves, accepted, connected, started,
                   now, hv, defaults, last>>

\* Scheduler.enter called by the Harbour's thread, from the lock:
\* "with self._lock: heapq.heappush(self._queue, event)".
EnterPush ==
    /\ thr["harbour"].pc = "enter"
    /\ queue' = Enter(queue, thr["harbour"].moment, thr["harbour"].handle, 0,
                      JobTrigger(NoJob))
    /\ thr' = [thr EXCEPT !["harbour"] = Idle]
    /\ UNCHANGED <<entities, tasks, wire, nextId, moves, accepted, connected, started, now,
                   hv, defaults, calls, last>>

\* scheduler.cancel(handle)
CancelCall ==
    /\ calls < MaxCalls
    /\ calls' = calls + 1
    /\ \E handle \in SchedHandles \ {NoId} : queue' = Cancel(queue, handle)
    /\ UNCHANGED <<entities, tasks, thr, wire, nextId, moves, accepted, connected, started,
                   now, hv, defaults, last>>

\* An iteration of the loop of Runner.target with "delay < 0": heappop.
PopCall ==
    /\ calls < MaxCalls
    /\ calls' = calls + 1
    /\ queue # <<>>
    /\ queue[1].moment <= now
    /\ queue' = Tail(queue)
    /\ last' = [NoCall EXCEPT !.op = "pop", !.moment = queue[1].moment,
                              !.prev = Max(last.prev, last.moment)]
    /\ UNCHANGED <<entities, tasks, thr, wire, nextId, moves, accepted, connected, started,
                   now, hv, defaults>>

\* time.monotonic() grows.
ClockTick ==
    /\ now < MaxClock
    /\ now' = now + 1
    /\ UNCHANGED <<entities, tasks, queue, thr, wire, nextId, moves, accepted, connected,
                   started, hv, defaults, calls, last>>

SchedNext ==
    \/ EnterCall
    \/ EnterRead
    \/ EnterPush
    \/ CancelCall
    \/ PopCall
    \/ ClockTick

SchedulerSpec == SchedInit /\ [][SchedNext]_vars

(***************************************************************************)
(* A HarvestableFeature on its own: constructed with some amounts, then    *)
(* grow() and harvest() called on it.                                      *)
(***************************************************************************)
\* HarvestableFeature(start, min, max, grow, pick): those of the BerryBush and
\* others with min_amount <= start_amount <= max_amount.
Harvestables ==
    {[current |-> c, min |-> m, max |-> BUSH_MAX_AMOUNT, grow |-> g, pick |-> p] :
        c \in 0..BUSH_MAX_AMOUNT, m \in {0, BUSH_MIN_AMOUNT},
        g \in {BUSH_GROW_AMOUNT, 3}, p \in {4, BUSH_PICK_AMOUNT}}

FeatureInit ==
    /\ hv \in {h \in Harvestables : h.min <= h.current}
    /\ calls = 0
    /\ entities = BasicWorld
    /\ tasks = [i \in {0} |-> Task("empty", NoId)]
    /\ queue = <<>>
    /\ thr = ThreadsAtStart
    /\ wire = [t \in Threads |-> <<>>]
    /\ nextId = 1
    /\ moves = 0
    /\ accepted = 0
    /\ connected = {}
    /\ started = FALSE
    /\ now = 0
    /\ last = NoCall
    /\ defaults = NoLists

\* hv.grow()
GrowCall ==
    /\ calls < MaxCalls
    /\ calls' = calls + 1
    /\ hv' = Grow(hv)
    /\ UNCHANGED <<entities, tasks, queue, thr, wire, nextId, moves, accepted, connected,
                   started, now, last, defaults>>

\* hv.harvest()
HarvestCall ==
    /\ calls < MaxCalls
    /\ calls' = calls + 1
    /\ hv' = Harvest(hv)
    /\ UNCHANGED <<entities, tasks, queue, thr, wire, nextId, moves, accepted, connected,
                   started, now, last, defaults>>

FeatureNext ==
    \/ GrowCall
    \/ HarvestCall

FeatureSpec == FeatureInit /\ [][FeatureNext]_vars

(***************************************************************************)
(* The damageable entities on their own: a BerryBush, a Spruce and a       *)
(* Warrior as their constructors make them, then handle_event called with  *)
(* DamageEvents of non-negative amounts.                                   *)
(***************************************************************************)
MaxDamage == 250

\* damage_amount of the DamageEvents: none, a scratch, those of the Axe, and
\* one above every start_health.
Amounts == {0, 30, AXE_ATTACK_DAMAGE, AXE_CHOP_DAMAGE, MaxDamage}

\* max_health of set_damageable.
MaxHealth(kind) ==
    CASE kind = "berry_bush" -> 200
      [] kind = "spruce" -> 400
      [] kind = "warrior" -> 200
      [] OTHER -> 0

\* State([BerryBush, Spruce, Warrior]).
DamageWorld ==
    [i \in 1..3 |->
        CASE i = 1 -> Entity("berry_bush", "near")
          [] i = 2 -> Entity("spruce", "near")
          [] OTHER -> Entity("warrior", "near")]

DamageInit ==
    /\ entities = DamageWorld
    /\ tasks = [i \in {0} |-> Task("empty", NoId)]
    /\ queue = <<>>
    /\ thr = ThreadsAtStart
    /\ wire = [t \in Threads |-> <<>>]
    /\ nextId = 4
    /\ moves = 0
    /\ accepted = 0
    /\ connected = {}
    /\ started = FALSE
    /\ now = 0
    /\ hv = NoFeature
    /\ calls = 0
    /\ last = NoCall
    /\ defaults = NoLists

\* entity.handle_event(DamageEvent(id, dealer, amount)); `alive`: what
\* handle_damage returned to the handler.
DamageCall ==
    /\ calls < MaxCalls
    /\ calls' = calls + 1
    /\ \E id \in DOMAIN entities : \E amount \in Amounts :
          \E r \in {HandleEvent(entities, tasks, id, DamageEvent(id, NoId, amount),
                                NewTid(tasks), now)} :
             /\ entities' = r.ents
             /\ tasks' = Collect(entities', r.tasks, queue, thr)
             /\ last' = [op |-> "handle_damage", id |-> id, amount |-> amount,
                         before |-> entities[id].health,
                         alive |-> ~DiesOf(entities[id].health, amount)]
    /\ UNCHANGED <<queue, thr, wire, nextId, moves, accepted, connected, started, now, hv,
                   defaults>>

DamageNext == DamageCall

DamageSpec == DamageInit /\ [][DamageNext]_vars

(***************************************************************************)
(* The Gateway with clients whose sockets fail: Rocks in the world, two    *)
(* heroes connected, then Engine.handle_event called for their moves while *)
(* sock.sendall raises for some of the sockets.                            *)
(***************************************************************************)
MaxSteps == 2

\* A broadcast_action without try and except: the exception of the first
\* failing sendall leaves it, the sockets after that one are not tried.
RECURSIVE BroadcastActionBare(_, _, _)
BroadcastActionBare(socks, failing, action) ==
    IF socks = <<>> THEN [to |-> {}, exc |-> "none"]
    ELSE IF socks[1] \in failing THEN [to |-> {}, exc |-> "OSError"]
    ELSE [BroadcastActionBare(Tail(socks), failing, action) EXCEPT !.to = @ \cup {socks[1]}]

\* Gateway.broadcast_action(action) over the sockets `socks`, sendall raising
\* for those in `failing`: the clients the action reached and the exception
\* that leaves the call.
RECURSIVE BroadcastAction(_, _, _)
BroadcastAction(socks, failing, action) ==
    IF socks = <<>> THEN [to |-> {}, exc |-> "none"]
    ELSE IF socks[1] \in failing THEN BroadcastAction(Tail(socks), failing, action)
    ELSE [BroadcastAction(Tail(socks), failing, action) EXCEPT !.to = @ \cup {socks[1]}]

\* "for action in ...: self.gateway.broadcast_action(action)" for the actions
\* of one Engine step: per action the clients it reached, up to the first
\* call that an exception leaves.
RECURSIVE BroadcastEach(_, _, _)
BroadcastEach(socks, failing, acts) ==
    IF acts = <<>> THEN [log |-> <<>>, exc |-> "none"]
    ELSE IF BroadcastAction(socks, failing, acts[1]).exc # "none"
    THEN [log |-> <<>>, exc |-> BroadcastAction(socks, failing, acts[1]).exc]
    ELSE [BroadcastEach(socks, failing, Tail(acts)) EXCEPT
             !.log = <<[action |-> acts[1],
                        to |-> BroadcastAction(socks, failing, acts[1]).to]>> \o @]

\* association.get_sockets(): the sockets in the order of the dict, which is
\* the order of the connections.
RECURSIVE Sockets(_)
Sockets(clients) ==
    IF clients = {} THEN <<>>
    ELSE <<CHOOSE c \in clients : \A d \in clients : c <= d>>
            \o Sockets(clients \ {CHOOSE c \in clients : \A d \in clients : c <= d})

\* State([Rocks]) after Engine.start and the connection of heroes 2 and 3.
GateWorld ==
    HandleEntity(
        [HandleEntity(
            [EngineStart(World([i \in {1} |-> Entity("rocks", "near")],
                               [i \in {0} |-> Task("empty", NoId)], 2, <<>>, <<>>, "none"),
                         {1}, 0)
             EXCEPT !.ents = AddEntity(@, 2, Entity("pirate", "near")), !.nid = 3],
            2, 0)
         EXCEPT !.ents = AddEntity(@, 3, Entity("pirate", "near")), !.nid = 4],
        3, 0)

GateInit ==
    /\ entities = GateWorld.ents
    /\ tasks = GateWorld.tasks
    /\ queue = GateWorld.queue
    /\ thr = [ThreadsAtStart EXCEPT !["runner"] = Idle]
    /\ wire = [t \in Threads |-> <<>>]
    /\ nextId = 4
    /\ moves = 0
    /\ accepted = 2
    /\ connected = {2, 3}
    /\ started = TRUE
    /\ now = 0
    /\ hv = NoFeature
    /\ calls = 0
    /\ last = NoCall
    /\ defaults = NoLists

\* Engine.handle_event(event) of the Harbour's thread for a move of a client,
\* sendall raising for the sockets `failing`.  `log`: per action the clients
\* it reached.
GateStep ==
    /\ thr["harbour"].pc = "idle"
    /\ calls < MaxSteps
    /\ calls' = calls + 1
    /\ \E h \in connected : \E failing \in SUBSET connected :
          \E ev \in InputEvents(h, {1, NoId}, {1}) :
             \E w \in {HandleEventWhole(World(entities, tasks, nextId, queue, <<>>, "none"),
                                        ev, now)} :
                \E g \in {BroadcastEach(Sockets(connected), failing, w.wire)} :
                   /\ entities' = w.ents
                   /\ nextId' = w.nid
                   /\ queue' = IF g.exc # "none" THEN queue ELSE w.queue
                   /\ wire' = [wire EXCEPT !["harbour"] = w.wire]
                   /\ thr' = [thr EXCEPT !["harbour"] =
                                 IF w.exc # "none" THEN Dead(w.exc)
                                 ELSE IF g.exc # "none" THEN Dead(g.exc) ELSE Idle]
                   /\ tasks' = Collect(entities', w.tasks, queue', thr')
                   /\ last' = [op |-> "handle_event", event |-> ev, failing |-> failing,
                               log |-> g.log, exc |-> g.exc]
    /\ UNCHANGED <<moves, accepted, connected, started, now, hv, defaults>>

GateNext == GateStep

GatewaySpec == GateInit /\ [][GateNext]_vars

(***************************************************************************)
(* State and HarvestTask called directly on a State built by the           *)
(* constructors: a hero, Rocks and a Log in the hero's inventory or on the *)
(* ground, a BerryBush and Gold on the ground next to the hero.            *)
(***************************************************************************)
Hero == 1
Items == {2, 3, 6}
Bush == 5
MaxStack == 4

\* An inventorable entity that store_entry put into the inventory of `holder`.
Stored(kind, holder) == [Entity(kind, "none") EXCEPT !.stored_by = holder]

\* The entity `kind`, in the inventory of the hero if `slot` is one of its
\* slots, on the ground otherwise.
Placed(kind, slot) ==
    IF slot = "ground" THEN Entity(kind, "near") ELSE Stored(kind, Hero)

\* State(entities): Rocks 2 (a stack of `size`) in slot `rocks`, Log 3 in slot
\* `log`, of the slots LEFT, RIGHT, pocket, or on the ground.
StateWorld(size, rocks, log) ==
    LET items == [i \in {2, 3, 5, 6} |->
                     CASE i = 2 -> [Placed("rocks", rocks) EXCEPT !.stack = size]
                       [] i = 3 -> Placed("log", log)
                       [] i = 5 -> Entity("berry_bush", "near")
                       [] OTHER -> Entity("gold", "near")]
        slot(s) == IF rocks = s THEN AsInfo(2, items[2])
                   ELSE IF log = s THEN AsInfo(3, items[3])
                   ELSE NoEntry
    IN  [i \in {1, 2, 3, 5, 6} |->
            IF i = Hero
            THEN [Entity("pirate", "near") EXCEPT
                     !.LEFT = slot("LEFT"), !.RIGHT = slot("RIGHT"),
                     !.pockets = <<slot("pocket")>>]
            ELSE items[i]]

\* State([rock1, other]) and an inventory with store_entry(LEFT, rock1.as_info())
\* and insert_entry(pocket, other.as_info()): Rocks 2, a stack of n1, in the left
\* hand of the hero and entity 3 of kind `kind`, a stack of n2, in a pocket.
MergeWorld(kind, n1, n2) ==
    [i \in {1, 2, 3} |->
        CASE i = Hero ->
                [Entity("pirate", "near") EXCEPT
                    !.LEFT = [id |-> 2, quantity |-> n1],
                    !.pockets[1] = [id |-> 3, quantity |-> n2]]
          [] i = 2 -> [Stored("rocks", Hero) EXCEPT !.stack = n1]
          [] OTHER -> [Stored(kind, Hero) EXCEPT !.stack = n2]]

StateInit ==
    /\ entities \in {StateWorld(size, rocks, log) :
                        size \in 1..MaxStack, rocks \in {"LEFT", "pocket"},
                        log \in {"RIGHT", "ground"}}
                    \cup {MergeWorld(kind, n1, n2) :
                             kind \in {"rocks", "gold"}, n1 \in 1..MaxStack,
                             n2 \in 1..MaxStack}
    /\ nextId = 7
    /\ calls = 0
    /\ last = NoCall
    /\ defaults = NoLists
    /\ tasks = [i \in {0} |-> Task("empty", NoId)]
    /\ queue = <<>>
    /\ thr = ThreadsAtStart
    /\ wire = [t \in Threads |-> <<>>]
    /\ moves = 0
    /\ accepted = 0
    /\ connected = {}
    /\ started = FALSE
    /\ now = 0
    /\ hv = NoFeature

\* Assemblies of the recipe "axe" whose first ingredient has two sources.
SplitAssemblies(ids) ==
    {[recipe_codename |-> "axe",
      sources |-> << <<[actor_id |-> a, quantity |-> 1], [actor_id |-> b, quantity |-> 1]>>,
                     <<[actor_id |-> c, quantity |-> 1]>> >>] : a \in ids, b \in ids, c \in ids}

\* What is recorded of state.craft_entity(assembly, inventory) returning r.
CraftCalled(assembly, before, r) ==
    [NoCall EXCEPT !.op = "craft", !.assembly = assembly, !.before = before,
                   !.valid = ValidateAssembly(before, Hero, assembly),
                   !.created = r.created, !.deleted = r.deleted, !.exc = r.exc]

\* state.craft_entity(assembly, hero.features.inventory)
CraftCall ==
    /\ calls < MaxCalls
    /\ calls' = calls + 1
    /\ \E assembly \in Assemblies(Items) \cup SplitAssemblies(Items) :
          \E r \in {CraftResult(defaults, CraftEntity(entities, Hero, assembly, nextId))} :
             /\ entities' = r.ents
             /\ nextId' = r.nid
             /\ last' = CraftCalled(assembly, entities, r)
             /\ defaults' = [created |-> r.created, deleted |-> r.deleted]
    /\ UNCHANGED <<tasks, queue, thr, wire, moves, accepted, connected, started, now, hv>>

\* HarvestTask._finish_complete for an inventorable subject on the ground
\* next to the hero, with the empty hand the task was made for.
PickCall ==
    /\ calls < MaxCalls
    /\ calls' = calls + 1
    /\ \E hand \in Hands :
          \E what \in DOMAIN entities \ {Hero} :
             /\ GetHand(entities[Hero], hand) = NoId
             /\ IsInventorable(entities[what].kind)
             /\ Within(entities, Hero, what)
             /\ entities' = FinishInventorable(entities, Hero, what, hand)
    /\ last' = [NoCall EXCEPT !.op = "pick"]
    /\ UNCHANGED <<tasks, queue, thr, wire, nextId, moves, accepted, connected, started, now,
                   hv, defaults>>

\* HarvestTask._finish_complete for the BerryBush next to the hero, with the
\* empty hand the task was made for.
HarvestFinishCall ==
    /\ calls < MaxCalls
    /\ calls' = calls + 1
    /\ Exists(entities, Bush)
    /\ Within(entities, Hero, Bush)
    /\ \E hand \in Hands :
          /\ GetHand(entities[Hero], hand) = NoId
          /\ \E r \in {FinishHarvestable(entities, nextId, Hero, Bush, hand)} :
                /\ entities' = r.ents
                /\ nextId' = r.nid
    /\ last' = [NoCall EXCEPT !.op = "harvest"]
    /\ UNCHANGED <<tasks, queue, thr, wire, moves, accepted, connected, started, now, hv, defaults>>

\* What is recorded of state.merge_entities(inventory, hand, index).
MergeCalled(before, hand, index) ==
    [NoCall EXCEPT !.op = "merge", !.before = before, !.hand = hand, !.index = index]

\* state.merge_entities(hero.features.inventory.get(), hand, pocket_index)
MergeCall ==
    /\ calls < MaxCalls
    /\ calls' = calls + 1
    /\ \E hand \in Hands :
          \E index \in DOMAIN entities[Hero].pockets :
             /\ entities' = MergeEntities(entities, Hero, hand, index)
             /\ last' = MergeCalled(entities, hand, index)
    /\ UNCHANGED <<tasks, queue, thr, wire, nextId, moves, accepted, connected, started, now,
                   hv, defaults>>

StateNext ==
    \/ CraftCall
    \/ PickCall
    \/ HarvestFinishCall
    \/ MergeCall

StateSpec == StateInit /\ [][StateNext]_vars

(***************************************************************************)
(* The ids of State: on a State built by the constructors, add_entity with *)
(* an unassigned id (a connecting hero, a drop), craft_entity, the harvest *)
(* of the bush and delete_entity, the ids drawn by random.randint.         *)
(***************************************************************************)
MaxId == 8

\* A generate_new_entity_id without the test "id not in self.entities".
GenerateAnyEntityId(ents) == 0..MaxId

\* State.generate_new_entity_id: the ids it can return, the random ids being
\* those of 0..MaxId.
GenerateNewEntityId(ents) == {id \in 0..MaxId : id \notin DOMAIN ents}

IdInit ==
    /\ entities \in {StateWorld(size, "pocket", "RIGHT") : size \in 2..3}
    /\ nextId = 7
    /\ calls = 0
    /\ last = NoCall
    /\ defaults = NoLists
    /\ tasks = [i \in {0} |-> Task("empty", NoId)]
    /\ queue = <<>>
    /\ thr = ThreadsAtStart
    /\ wire = [t \in Threads |-> <<>>]
    /\ moves = 0
    /\ accepted = 0
    /\ connected = {}
    /\ started = FALSE
    /\ now = 0
    /\ hv = NoFeature

\* state.add_entity(entity) for an entity with UNASSIGNED_ACTOR_ID: the hero of
\* handle_connection, a drop of DieAndDropTask.start.
AddCall ==
    /\ calls < MaxCalls
    /\ calls' = calls + 1
    /\ \E id \in GenerateNewEntityId(entities) : \E kind \in {"pirate", "twig"} :
          /\ entities' = AddEntity(entities, id, Entity(kind, "near"))
          /\ last' = [op |-> "add", id |-> id]
    /\ UNCHANGED <<tasks, queue, thr, wire, nextId, moves, accepted, connected, started, now,
                   hv, defaults>>

\* state.craft_entity(assembly, hero.features.inventory); `id`: the id of the
\* entity it added, if it added one.
IdCraftCall ==
    /\ calls < MaxCalls
    /\ calls' = calls + 1
    /\ \E id \in GenerateNewEntityId(entities) : \E assembly \in Assemblies(Items) :
          \E r \in {CraftEntity(entities, Hero, assembly, id)} :
             /\ entities' = r.ents
             /\ last' = [op |-> "craft", id |-> IF r.created = <<>> THEN NoId ELSE id]
    /\ UNCHANGED <<tasks, queue, thr, wire, nextId, moves, accepted, connected, started, now,
                   hv, defaults>>

\* HarvestTask._finish_harvestable for the BerryBush next to the hero, with an
\* empty hand; `id`: the id of the crop, if there is one.
IdHarvestCall ==
    /\ calls < MaxCalls
    /\ calls' = calls + 1
    /\ Exists(entities, Bush)
    /\ \E hand \in Hands : \E id \in GenerateNewEntityId(entities) :
          /\ GetHand(entities[Hero], hand) = NoId
          /\ \E r \in {FinishHarvestable(entities, id, Hero, Bush, hand)} :
                /\ entities' = r.ents
                /\ last' = [op |-> "harvest", id |-> IF r.crops = 0 THEN NoId ELSE id]
    /\ UNCHANGED <<tasks, queue, thr, wire, nextId, moves, accepted, connected, started, now,
                   hv, defaults>>

\* state.delete_entity(id) for an entity on the ground, as DieJob calls it.
DeleteCall ==
    /\ calls < MaxCalls
    /\ calls' = calls + 1
    /\ \E id \in DOMAIN entities \ {Hero} :
          /\ entities[id].stored_by = NoId
          /\ \A h \in Hands : GetHand(entities[Hero], h) # id
          /\ entities' = DelEntity(entities, id)
          /\ last' = [op |-> "delete", id |-> NoId]
    /\ UNCHANGED <<tasks, queue, thr, wire, nextId, moves, accepted, connected, started, now,
                   hv, defaults>>

IdNext ==
    \/ AddCall
    \/ IdCraftCall
    \/ IdHarvestCall
    \/ DeleteCall

IdSpec == IdInit /\ [][IdNext]_vars

(***************************************************************************)
(* The Engine on a State whose hero holds what the axe is made of: Rocks 2 *)
(* in a pocket, Log 3 in the right hand or on the ground, Gold 6 next to   *)
(* the hero.  The hero's client sends Craft, MotionStart and               *)
(* HandActivation moves, and in the end it disconnects.                    *)
(***************************************************************************)
MaxOrders == 2
WorkMaxTime == 250

WorkInit ==
    /\ entities \in {StateWorld(size, "pocket", log) :
                        size \in 2..3, log \in {"RIGHT", "ground"}}
    /\ tasks = [i \in {0} |-> Task("empty", NoId)]
    /\ queue = <<>>
    /\ thr = ThreadsAtStart
    /\ wire = [t \in Threads |-> <<>>]
    /\ nextId = 7
    /\ moves = 0
    /\ accepted = 1
    /\ connected = {Hero}
    /\ started = FALSE
    /\ now = 0
    /\ hv = NoFeature
    /\ calls = 0
    /\ last = NoCall
    /\ defaults = NoLists

\* The events event_from_move makes of the moves the hero's client sends here.
Orders(h) ==
    {CraftEvent(h, a) : a \in Assemblies({2, 3})}
        \cup {Event("motion_start", h)}
        \cup {HandActivationEvent(h, hand, 6) : hand \in Hands}

\* EventListener._process_message: Engine.handle_event(event) begins.
Order ==
    /\ thr["harbour"].pc = "idle"
    /\ started
    /\ moves < MaxOrders
    /\ moves' = moves + 1
    /\ \E h \in connected : \E ev \in Orders(h) :
          thr' = [thr EXCEPT !["harbour"] = [Idle EXCEPT !.pc = "event", !.event = ev]]
    /\ wire' = [wire EXCEPT !["harbour"] = <<>>]
    /\ UNCHANGED <<entities, tasks, queue, nextId, accepted, connected, started, now, hv,
                   defaults, calls, last>>

WorkTick == Sleep(WorkMaxTime)

\* The queue holds the GrowJob of the BerryBush from Engine.start on, so the
\* Runner's loop never finds it empty.
WorkNext ==
    \/ RunnerStart
    \/ RunnerPop
    \/ JobPerform
    \/ \E t \in Threads : EvHandle(t)
    \/ \E t \in Threads : EvFinish(t)
    \/ \E t \in Threads : EvStart(t)
    \/ \E t \in Threads : EvSchedule(t)
    \/ Order
    \/ Disconnect
    \/ WorkTick

WorkshopSpec == WorkInit /\ [][WorkNext]_vars

(***************************************************************************)
(* The jobs of an eater executed directly on a State: a hero with food in  *)
(* both hands, RawMeat or Berry in stacks of one to MaxStack, then         *)
(* HungerDrainJob.execute and EatJob.execute in any order.                 *)
(***************************************************************************)
EaterInit ==
    /\ entities \in
          {[i \in 1..3 |->
               CASE i = Hero ->
                       [Entity("pirate", "near") EXCEPT
                           !.LEFT = [id |-> 2, quantity |-> n2],
                           !.RIGHT = [id |-> 3, quantity |-> n3]]
                 [] i = 2 -> [Stored(k2, Hero) EXCEPT !.stack = n2]
                 [] OTHER -> [Stored(k3, Hero) EXCEPT !.stack = n3]] :
             k2 \in {"berry", "raw_meat"}, k3 \in {"berry", "raw_meat"},
             n2 \in 1..MaxStack, n3 \in 1..MaxStack}
    /\ tasks = [i \in {0} |-> Task("empty", NoId)]
    /\ queue = <<>>
    /\ thr = ThreadsAtStart
    /\ wire = [t \in Threads |-> <<>>]
    /\ nextId = 4
    /\ moves = 0
    /\ accepted = 0
    /\ connected = {}
    /\ started = FALSE
    /\ now = 0
    /\ hv = NoFeature
    /\ calls = 0
    /\ last = NoCall
    /\ defaults = NoLists

\* HungerDrainJob(hero).execute(state).
DrainCall ==
    /\ calls < MaxCalls
    /\ calls' = calls + 1
    /\ entities' = HungerDrainJobExecute(entities, HungerDrainJob(Hero)).ents
    /\ last' = [op |-> "drain", before |-> entities[Hero].hunger]
    /\ UNCHANGED <<tasks, queue, thr, wire, nextId, moves, accepted, connected, started, now,
                   hv, defaults>>

\* EatJob(hero, hand, food, finish_events).execute(state) for the food in a hand.
EatCall ==
    /\ calls < MaxCalls
    /\ calls' = calls + 1
    /\ \E hand \in Hands :
          /\ GetHand(entities[Hero], hand) # NoId
          /\ entities' = EatJobExecute(entities,
                                       EatJob(0, Hero, hand, GetHand(entities[Hero], hand),
                                              <<Event("finished", Hero)>>)).ents
    /\ last' = [op |-> "eat", before |-> entities[Hero].hunger]
    /\ UNCHANGED <<tasks, queue, thr, wire, nextId, moves, accepted, connected, started, now,
                   hv, defaults>>

EaterNext ==
    \/ DrainCall
    \/ EatCall

EaterSpec == EaterInit /\ [][EaterNext]_vars

(***************************************************************************)
(* Properties of the server (Spec).                                        *)
(***************************************************************************)
\* Thread t is inside Engine._handle_event, past entity.handle_event.
InEngine(t) == thr[t].pc \in {"finish", "start", "schedule"}

\* No thread is inside the Engine, and none was left by an exception.
Quiescent == \A t \in Threads : thr[t].pc \in {"idle", "exited"}

\* The positions of the scheduler's entries with handle h.
EntriesOf(h) == {k \in DOMAIN queue : queue[k].handle = h}

C2_StepsSerialized == ~(InEngine("harbour") /\ InEngine("runner"))

\* C3: of the actions a thread broadcasts in one Engine step none returned by
\* the new task's start() comes before one returned by the old task's finish().
C3_FinishBeforeStart ==
    \A t \in Threads :
        \A i, j \in DOMAIN wire[t] :
            i < j => ~(wire[t][i].from = "start" /\ wire[t][j].from = "finish")

\* A step has broadcast actions of finish() and actions of start().
C3_Witness ==
    \E t \in Threads :
        \E i, j \in DOMAIN wire[t] :
            /\ wire[t][i].from = "finish"
            /\ wire[t][j].from = "start"
            /\ thr[t].pc = "idle"

Drops == {i \in DOMAIN entities : entities[i].kind \in {"raw_meat", "twig", "log"}}

Stranded(h) ==
    /\ Exists(entities, h)
    /\ entities[h].deaths > 0
    /\ h \notin connected
    /\ Quiescent
    /\ \A k \in DOMAIN queue :
          queue[k].trigger.is = "job" /\ queue[k].trigger.job.kind = "hunger"

C7_AmountInRange == calls > 0 => (hv.min <= hv.current /\ hv.current <= hv.max)

\* The quantity of entity id in `ents`: nothing once it is deleted.
QuantityIn(ents, id) == IF Exists(ents, id) THEN GetQuantity(ents[id]) ELSE 0

\* The sum of the quantities the sources declare for entity id.
RECURSIVE Declared(_, _)
Declared(sources, id) ==
    IF sources = <<>> THEN 0
    ELSE (IF sources[1].actor_id = id THEN sources[1].quantity ELSE 0)
             + Declared(Tail(sources), id)

\* C8: after craft_entity for an assembly that validate_assembly accepted, the
\* call returned, a new entity is in State and, if inventorable, in the
\* inventory, and each cited entity lost the quantity the assembly declares.
C8_CraftAtomic ==
    (last.op = "craft" /\ last.valid) =>
        /\ last.exc = "none"
        /\ Len(last.created) = 1
        /\ \A k \in DOMAIN last.created :
              /\ Exists(entities, last.created[k])
              /\ IsInventorable(entities[last.created[k]].kind) =>
                    InInventory(entities[Hero], last.created[k])
        /\ \A id \in DOMAIN last.before :
              QuantityIn(last.before, id) - QuantityIn(entities, id)
                  = Declared(Flatten(last.assembly.sources), id)

\* C9: after a pick, a harvest or a craft every entity in a slot of a holder's
\* inventory has no position and is stored by that holder.
C9_StoredConsistent ==
    last.op # "none" =>
        \A h \in {i \in DOMAIN entities : HasInventory(entities[i].kind)} :
            \A id \in StoredIds(entities[h]) :
                Exists(entities, id) =>
                    /\ entities[id].position = "none"
                    /\ entities[id].stored_by = h

\* C10: no exception leaves Engine._handle_event or Engine._handle_job.
C10_NoException == \A t \in Threads : thr[t].pc # "raised"

\* C12: the entry the Runner pops has a deadline that has passed and that is
\* not before the deadline of any entry popped earlier.
C12_DeadlineOrder ==
    last.op = "pop" => (last.prev <= last.moment /\ last.moment <= now)

\* Entry e is a scheduled job of entity id: one entered with the entity's
\* handle, or the HungerDrainJob of the entity.
JobOf(e, id) ==
    /\ e.trigger.is = "job"
    /\ \/ e.handle = id
       \/ e.trigger.job.kind = "hunger" /\ e.trigger.job.entity = id

\* Entry e is an event for entity id that a job's execute returned.
EventFor(e, id) == e.trigger.is = "event" /\ e.trigger.event.receiver = id

\* The Runner pops a job in this step.
PopsJob == thr["runner"].pc = "idle" /\ thr'["runner"].pc = "job"

\* C13: every event in the scheduler was entered with delay 0 (its deadline
\* is not after the clock), and when the Runner pops a job of an entity, no
\* event for that entity entered before the job's deadline is left behind.
C13_EventsFirst ==
    [][/\ \A k \in DOMAIN queue' :
             queue'[k].trigger.is = "event" => queue'[k].moment <= now'
       /\ PopsJob =>
             \A k \in DOMAIN queue' :
                \A id \in DOMAIN entities :
                   ~(/\ JobOf(queue[1], id)
                     /\ EventFor(queue'[k], id)
                     /\ queue'[k].moment < queue[1].moment)]_vars

\* The Runner has popped an event for an entity of which a job with a later
\* deadline is still scheduled.
C13_Witness ==
    /\ thr["runner"].pc = "event"
    /\ \E k \in DOMAIN queue :
          /\ JobOf(queue[k], thr["runner"].event.receiver)
          /\ queue[k].handle = thr["runner"].event.receiver

\* C14: the ActorCreation of a new hero that handle_connection broadcasts
\* comes right after the ActorCreation of the earlier actors sent to the
\* hero's client, is followed by the Configuration and the InventoryUpdate,
\* and no action about the hero is on the wire before it.
C14_ConnectionOrder ==
    \A j \in DOMAIN wire["harbour"] :
        (wire["harbour"][j].name = "ActorCreation" /\ wire["harbour"][j].from = "connection")
            => /\ SubSeq(wire["harbour"], j - 1, j + 3)
                     = ConnectionActions(wire["harbour"][j].actor)
               /\ \A i \in 1..(j - 1) :
                     wire["harbour"][i].actor # wire["harbour"][j].actor

\* C15: a hero that has connected and whose client has sent no move has an
\* IdleTask, and the IdleAction of the hero was broadcast.
C15_ResumedOnConnect ==
    \A h \in connected :
        moves = 0 =>
            /\ tasks[entities[h].task].kind = "idle"
            /\ \E j \in DOMAIN wire["harbour"] :
                  wire["harbour"][j].name = "Idle" /\ wire["harbour"][j].actor = h

\* The id in the hand and the id in the pocket that the last merge_entities
\* call was made for, and the stacks they had.
MergeSource == last.before[Hero][last.hand].id

MergeTarget == last.before[Hero].pockets[last.index].id

Combined == last.before[MergeSource].stack + last.before[MergeTarget].stack

\* The last call was a merge_entities that passed its preconditions.
Merged == last.op = "merge" /\ MergeApplies(last.before, Hero, last.hand, last.index)

\* C16: after a merge_entities that passed its preconditions the sizes of the
\* source and the target stack add up to what they added up to before, a
\* deleted source counting as 0.
C16_MergeConserves ==
    Merged => QuantityIn(entities, MergeSource) + QuantityIn(entities, MergeTarget) = Combined

\* A merge that did not fit has left a remainder in the hand.
C16_Witness ==
    /\ Merged
    /\ Combined > MAX_TARGET_QUANTITY
    /\ Exists(entities, MergeSource)
    /\ entities[MergeSource].stack = Combined - MAX_TARGET_QUANTITY

\* C17: after a merge_entities that passed its preconditions the target
\* entity and its pocket entry hold min(max_target_quantity, source + target);
\* with no remainder the source entity and the hand entry are gone, otherwise
\* both hold the remainder.
C17_MergeResult ==
    Merged =>
        /\ Exists(entities, MergeTarget)
        /\ entities[MergeTarget].stack
              = (IF Combined < MAX_TARGET_QUANTITY THEN Combined ELSE MAX_TARGET_QUANTITY)
        /\ entities[Hero].pockets[last.index]
              = [id |-> MergeTarget, quantity |-> entities[MergeTarget].stack]
        /\ IF Combined <= MAX_TARGET_QUANTITY
           THEN ~Exists(entities, MergeSource) /\ entities[Hero][last.hand] = NoEntry
           ELSE /\ Exists(entities, MergeSource)
                /\ entities[MergeSource].stack = Combined - MAX_TARGET_QUANTITY
                /\ entities[Hero][last.hand]
                      = [id |-> MergeSource, quantity |-> Combined - MAX_TARGET_QUANTITY]

\* A merge that fitted has deleted the source.
C17_Witness ==
    /\ Merged
    /\ Combined <= MAX_TARGET_QUANTITY
    /\ ~Exists(entities, MergeSource)

\* C18: a merge_entities for a hand and a pocket that hold items of different
\* kinds changes no entity, no stack and no inventory entry.
C18_MergeKinds ==
    (/\ Merged
     /\ last.before[MergeSource].kind # last.before[MergeTarget].kind) => entities = last.before

\* The last call was a craft_entity that could not be applied: the assembly
\* was not valid, no hand was free or the codename has no constructor.
CraftRefused ==
    /\ last.op = "craft"
    /\ \/ ~last.valid
       \/ GetFreeHand(last.before[Hero]) = "none"
       \/ last.assembly.recipe_codename \notin Registered

\* C19: a craft_entity that could not be applied leaves the entities, their
\* stacks and the inventory as they were, and the CraftResult it returns
\* lists no created and no deleted entity.
C19_CraftNoOp ==
    CraftRefused =>
        /\ entities = last.before
        /\ last.created = <<>>
        /\ last.deleted = <<>>

\* The last call was a craft_entity that crafted: the assembly was valid, a
\* hand was free and the call returned.
CraftDone ==
    /\ last.op = "craft"
    /\ last.valid
    /\ GetFreeHand(last.before[Hero]) # "none"
    /\ last.exc = "none"

\* What the assembly of the last call declares to use of entity id.
Used(id) == Declared(Flatten(last.assembly.sources), id)

\* The slots of the hero's inventory.
Slots(e) == {e.LEFT, e.RIGHT} \cup {e.pockets[i] : i \in DOMAIN e.pockets}

\* C20: after a craft_entity that crafted, every entity the assembly used up
\* is gone from State and from the inventory, every stack it used in part is
\* smaller by what was used, every other entity is as it was, the new entity is
\* in State and in the inventory, and every inventory entry has the quantity
\* of its entity.
C20_CraftFrame ==
    CraftDone =>
        /\ \A id \in DOMAIN last.before \ {Hero} :
              CASE Used(id) = 0 ->
                      /\ Exists(entities, id)
                      /\ entities[id] = last.before[id]
                      /\ \A hand \in Hands :
                            last.before[Hero][hand].id = id =>
                                entities[Hero][hand] = last.before[Hero][hand]
                      /\ \A i \in DOMAIN last.before[Hero].pockets :
                            last.before[Hero].pockets[i].id = id =>
                                entities[Hero].pockets[i] = last.before[Hero].pockets[i]
                [] Used(id) = QuantityIn(last.before, id) ->
                      ~Exists(entities, id) /\ ~InInventory(entities[Hero], id)
                [] OTHER ->
                      /\ Exists(entities, id)
                      /\ entities[id].stack = last.before[id].stack - Used(id)
        /\ \E new \in DOMAIN entities \ DOMAIN last.before :
              /\ DOMAIN entities \ DOMAIN last.before = {new}
              /\ InInventory(entities[Hero], new)
        /\ \A e \in Slots(entities[Hero]) \ {NoEntry} :
              /\ Exists(entities, e.id)
              /\ e.quantity = GetQuantity(entities[e.id])

\* The MotionJob of hero h's MotionTask has run out: its deadline has passed,
\* no Engine step is under way and the scheduler holds no entry of the hero.
TimedOut(h) ==
    /\ entities[h].kind = "pirate"
    /\ tasks[entities[h].task].kind = "motion"
    /\ tasks[entities[h].task].job.deadline <= now
    /\ Quiescent
    /\ EntriesOf(h) = {}

PickOf(tid) ==
    /\ tasks[tid].kind = "harvest"
    /\ Exists(entities, tasks[tid].eid)
    /\ Exists(entities, tasks[tid].what)
    /\ IsInventorable(entities[tasks[tid].what].kind)
    /\ Within(entities, tasks[tid].eid, tasks[tid].what)
    /\ GetHand(entities[tasks[tid].eid], tasks[tid].hand) = NoId

\* Thread t calls start() of its new task in this step.
Starts(t) == thr[t].pc = "start" /\ thr'[t].pc # "start"

\* Thread t calls finish() of its old task in this step.
Finishes(t) == thr[t].pc = "finish" /\ thr'[t].pc # "finish"

\* The hero of thread t's step handles the FinishedEvent of the job of its
\* task: the event is a FinishedEvent and no job of the hero is scheduled.
JobFinished(t) ==
    /\ thr[t].event.kind = "finished"
    /\ tasks[thr[t].old].started > 0
    /\ EntriesOf(thr[t].entity) = {}

\* C21: the start of a pick in range broadcasts PickBeginAction and provides
\* a job with start delay HARVEST_DURATION; when the hero handles the
\* FinishedEvent of that job, the finish of the task leaves the item without
\* a position and in the hand of the task, and broadcasts PickEndAction and
\* then InventoryUpdateAction.
C21_PickInRange ==
    [][\A t \in Threads :
          /\ (Starts(t) /\ PickOf(thr[t].new)) =>
                /\ wire'[t] = Append(wire[t], Action("PickBegin", thr[t].entity,
                                                     thr[t].new, "start"))
                /\ GetStartDelay(GetJob(tasks', thr[t].new, now)) = HARVEST_DURATION
          /\ (Finishes(t) /\ PickOf(thr[t].old) /\ JobFinished(t)) =>
                /\ thr'[t].pc = "start"
                /\ entities'[tasks[thr[t].old].what].position = "none"
                /\ GetHand(entities'[thr[t].entity], tasks[thr[t].old].hand)
                      = tasks[thr[t].old].what
                /\ wire'[t] = wire[t] \o
                      <<Action("PickEnd", thr[t].entity, thr[t].old, "finish"),
                        Action("InventoryUpdate", thr[t].entity, thr[t].old, "finish")>>]_vars

\* Task tid is a HarvestTask for a target that is given and that the hero
\* cannot reach: the hero or the target does not exist, one of them has no
\* position, or they are further apart than MAX_DISTANCE.
OutOfReach(tid) ==
    /\ tasks[tid].kind = "harvest"
    /\ tasks[tid].what # NoId
    /\ \/ ~Exists(entities, tasks[tid].eid)
       \/ ~Exists(entities, tasks[tid].what)
       \/ entities[tasks[tid].eid].position = "none"
       \/ entities[tasks[tid].what].position = "none"
       \/ entities[tasks[tid].eid].position # entities[tasks[tid].what].position

Schedules(t) == thr[t].pc = "schedule" /\ thr'[t].pc = "idle"

Deliverers(who) ==
    {i \in DOMAIN entities \ {who} :
        /\ \E k \in DOMAIN DeliveryClaims(entities[i].kind) :
              DeliveryClaims(entities[i].kind)[k] \in {"CARGO", "HARVEST"}
        /\ entities[i].position # "none"
        /\ entities[i].position = entities[who].position}

\* C24: the start of a HarvestTask without a target makes the target the
\* entity that find_closest_delivering_within returns: one of the entities
\* within MAX_DISTANCE that deliver CARGO or HARVEST (all at the least
\* distance here), and none only when there is no such entity.
C24_ClosestDelivering ==
    [][\A t \in Threads :
          (/\ Starts(t)
           /\ tasks[thr[t].new].kind = "harvest"
           /\ tasks[thr[t].new].what = NoId
           /\ Exists(entities, thr[t].entity)) =>
              IF Deliverers(thr[t].entity) = {}
              THEN tasks'[thr[t].new].what = NoId
              ELSE tasks'[thr[t].new].what \in Deliverers(thr[t].entity)]_vars

\* The interaction kind of a use of `item` on `receiver`: the claim at the
\* least index of the item's delivery claims that the receiver absorbs.
Interaction(item, receiver) ==
    IF \A k \in DOMAIN DeliveryClaims(entities[item].kind) :
          DeliveryClaims(entities[item].kind)[k] \notin AbsorptionClaims(entities[receiver].kind)
    THEN "none"
    ELSE DeliveryClaims(entities[item].kind)[
             CHOOSE k \in DOMAIN DeliveryClaims(entities[item].kind) :
                /\ DeliveryClaims(entities[item].kind)[k]
                      \in AbsorptionClaims(entities[receiver].kind)
                /\ \A j \in 1..(k - 1) :
                      DeliveryClaims(entities[item].kind)[j]
                         \notin AbsorptionClaims(entities[receiver].kind)]

\* The receiver of UseItemTask tid: the object, or the performer without one.
ReceiverOf(tid) ==
    IF tasks[tid].receiver # NoId THEN tasks[tid].receiver ELSE tasks[tid].eid

\* C25: the start of a UseItemTask whose performer, item and receiver exist
\* gives the task a DamageJob when the interaction kind is PAIN, an EatJob and
\* one EatBeginAction when it is FOOD, and no job and no action otherwise; the
\* finish of a UseItemTask broadcasts one EatEndAction when its job is an
\* EatJob and nothing otherwise.
C25_UseItemDispatch ==
    [][\A t \in Threads :
          /\ (/\ Starts(t)
              /\ tasks[thr[t].new].kind = "use_item"
              /\ Exists(entities, tasks[thr[t].new].eid)
              /\ Exists(entities, tasks[thr[t].new].item)
              /\ Exists(entities, ReceiverOf(thr[t].new))) =>
                CASE Interaction(tasks[thr[t].new].item, ReceiverOf(thr[t].new)) = "PAIN" ->
                        /\ tasks'[thr[t].new].job =
                              DamageJob(thr[t].new, tasks[thr[t].new].eid,
                                        ReceiverOf(thr[t].new), tasks[thr[t].new].item,
                                        tasks[thr[t].new].hand,
                                        <<Event("finished", tasks[thr[t].new].eid)>>)
                        /\ wire'[t] = wire[t]
                  [] Interaction(tasks[thr[t].new].item, ReceiverOf(thr[t].new)) = "FOOD" ->
                        /\ tasks'[thr[t].new].job =
                              EatJob(thr[t].new, tasks[thr[t].new].eid,
                                     tasks[thr[t].new].hand, tasks[thr[t].new].item,
                                     <<Event("finished", tasks[thr[t].new].eid)>>)
                        /\ wire'[t] =
                              Broadcast(wire[t], <<Action("EatBegin", tasks[thr[t].new].eid,
                                                          thr[t].new, "start")>>)
                  [] OTHER ->
                        /\ tasks'[thr[t].new].job = NoJob
                        /\ wire'[t] = wire[t]
          /\ (Finishes(t) /\ tasks[thr[t].old].kind = "use_item") =>
                wire'[t] =
                   IF tasks[thr[t].old].job.kind = "eat"
                   THEN Broadcast(wire[t], <<Action("EatEnd", tasks[thr[t].old].eid,
                                                    thr[t].old, "finish")>>)
                   ELSE wire[t]]_vars

\* A UseItemTask of food that the receiver absorbs both as FOOD and as CARGO
\* has been started with an EatJob and finished.
C25_Witness ==
    \E t \in Threads :
        /\ thr[t].pc = "start"
        /\ tasks[thr[t].old].kind = "use_item"
        /\ tasks[thr[t].old].job.kind = "eat"
        /\ tasks[thr[t].old].started = 1
        /\ tasks[thr[t].old].finished = 1

(***************************************************************************)
(* Properties of the attack (DuelSpec).                                    *)
(***************************************************************************)
\* The Runner's thread executes a DamageJob in this step.
Strikes ==
    /\ thr["runner"].pc = "job"
    /\ thr["runner"].job.kind = "damage"
    /\ thr'["runner"].pc # "job"

\* The entries of queue q that hold trigger `trigger`, by moment.
Entered(q, trigger) == {q[k].moment : k \in {j \in DOMAIN q : q[j].trigger = trigger}}

\* C26: the execution of a DamageJob whose dealer, receiver and tool exist
\* broadcasts one DamageAction, enters one DamageEvent for the receiver with
\* delay 0 and enters the job again REPEAT_INTERVAL later; an execution with
\* the receiver deleted broadcasts nothing, changes no entity, enters
\* FinishedEvent(dealer) and does not enter the job again; and a hero that
\* handles FinishedEvent takes an IdleTask.
C26_DamageRepeats ==
    [][/\ (/\ Strikes
           /\ Exists(entities, thr["runner"].job.dealer)
           /\ Exists(entities, thr["runner"].job.receiver)
           /\ Exists(entities, thr["runner"].job.tool)) =>
             /\ wire'["runner"] =
                   wire["runner"] \o <<Action("Damage", thr["runner"].job.dealer,
                                              thr["runner"].job.task, "job")>>
             /\ \E amount \in {AXE_CHOP_DAMAGE, AXE_ATTACK_DAMAGE} :
                   queue' = Enter(Enter(queue, now, NoId, 0,
                                        EventTrigger(DamageEvent(thr["runner"].job.receiver,
                                                                 thr["runner"].job.dealer,
                                                                 amount))),
                                  now, thr["runner"].handle, REPEAT_INTERVAL,
                                  JobTrigger(thr["runner"].job))
       /\ (Strikes /\ ~Exists(entities, thr["runner"].job.receiver)) =>
             /\ wire'["runner"] = wire["runner"]
             /\ entities' = entities
             /\ queue' = Enter(queue, now, NoId, 0,
                               EventTrigger(Event("finished", thr["runner"].job.dealer)))
             /\ Entered(queue', JobTrigger(thr["runner"].job)) = {}
       /\ \A t \in Threads :
             (/\ thr[t].pc = "event"
              /\ thr'[t].pc # "event"
              /\ thr[t].event.kind = "finished"
              /\ thr[t].event.receiver \in Wielders
              /\ Exists(entities, thr[t].event.receiver)) =>
                tasks'[entities'[thr[t].event.receiver].task].kind = "idle"]_vars

\* The target has been deleted, the attacker's DamageJob has emitted
\* FinishedEvent(dealer) and the dealer has taken an IdleTask for it.
C26_Witness ==
    \E t \in Threads :
        /\ thr[t].pc = "finish"
        /\ thr[t].event.kind = "finished"
        /\ ~Exists(entities, Target)
        /\ tasks[thr[t].old].kind = "use_item"
        /\ tasks[thr[t].old].job.kind = "damage"
        /\ tasks[thr[t].new].kind = "idle"

\* The ids of the living warriors.
Warriors == {i \in DOMAIN entities : entities[i].kind = "warrior"}

\* The MotionJob of WalkTask tid of warrior w, constructed now.
WalkJob(w, tid) == MotionJob(tid, now, w, WALK_DURATION, <<Event("finished", w)>>)

\* C27: a Warrior that handles ResumeEvent or FinishedEvent takes a new
\* WalkTask; the finish of the WalkTask it had broadcasts one
\* LocalizationAction, the start of the new one broadcasts one MotionAction,
\* its MotionJob is entered with delay MOTION_INTERVAL, is entered again every
\* MOTION_INTERVAL until WALK_DURATION has passed and then emits
\* FinishedEvent(warrior) and is not entered again.
C27_WalkCycle ==
    [][/\ (thr["runner"].pc = "init" /\ thr'["runner"].pc = "idle") =>
             \A w \in Warriors :
                /\ tasks'[entities'[w].task].kind = "walk"
                /\ SelectSeq(wire'["runner"], LAMBDA a : a.task = entities'[w].task)
                      = <<Action("Motion", w, entities'[w].task, "start")>>
                /\ Entered(queue', JobTrigger(WalkJob(w, entities'[w].task)))
                      = {now + MOTION_INTERVAL}
       /\ \A t \in Threads :
             /\ (/\ thr[t].pc = "event"
                 /\ thr'[t].pc # "event"
                 /\ thr[t].event.kind \in {"resume", "finished"}
                 /\ thr[t].event.receiver \in Warriors) =>
                   /\ thr'[t].pc = "finish"
                   /\ thr'[t].new \notin DOMAIN tasks
                   /\ tasks'[thr'[t].new].kind = "walk"
                   /\ entities'[thr[t].event.receiver].task = thr'[t].new
             /\ (Finishes(t) /\ tasks[thr[t].old].kind = "walk"
                             /\ thr[t].entity \in Warriors) =>
                   /\ thr'[t].pc = "start"
                   /\ wire'[t] = wire[t] \o <<Action("Localization", thr[t].entity,
                                                     thr[t].old, "finish")>>
             /\ (Starts(t) /\ tasks[thr[t].new].kind = "walk") =>
                   /\ thr'[t].pc = "schedule"
                   /\ wire'[t] = wire[t] \o <<Action("Motion", thr[t].entity,
                                                     thr[t].new, "start")>>
             /\ (Schedules(t) /\ tasks[thr[t].new].kind = "walk") =>
                   Entered(queue', JobTrigger(WalkJob(thr[t].entity, thr[t].new)))
                      = {now + MOTION_INTERVAL}
       /\ (/\ thr["runner"].pc = "job"
           /\ thr'["runner"].pc # "job"
           /\ thr["runner"].job.kind = "motion"
           /\ thr["runner"].job.entity \in Warriors) =>
             IF thr["runner"].job.deadline <= now
             THEN queue' = Enter(queue, now, NoId, 0,
                                 EventTrigger(Event("finished", thr["runner"].job.entity)))
             ELSE queue' = Enter(queue, now, thr["runner"].handle, MOTION_INTERVAL,
                                 JobTrigger(thr["runner"].job))]_vars

\* A warrior's WalkTask has been superseded by its next WalkTask, the first
\* finished and the second started.
C27_Witness ==
    \E t \in Threads :
        /\ thr[t].pc = "schedule"
        /\ tasks[thr[t].old].kind = "walk"
        /\ tasks[thr[t].new].kind = "walk"
        /\ thr[t].entity \in Warriors
        /\ wire[t] = <<Action("Localization", thr[t].entity, thr[t].old, "finish"),
                       Action("Motion", thr[t].entity, thr[t].new, "start")>>

(***************************************************************************)
(* Properties of the BerryBush (HeroSpec).                                 *)
(***************************************************************************)
\* The ids of the living bushes.
Bushes == {i \in DOMAIN entities : entities[i].kind = "berry_bush"}

\* The amount of bush b after one more grow().
Taller(b) ==
    IF entities[b].amount + BUSH_GROW_AMOUNT > BUSH_MAX_AMOUNT THEN BUSH_MAX_AMOUNT
    ELSE entities[b].amount + BUSH_GROW_AMOUNT

\* The state of a bush that carries `amount` berries.
Cover(amount) == IF amount >= STATE_THRESHOLD THEN "covered" ELSE "bare"

\* Thread t returns from the handle_event of its event in this step.
Handles(t) == thr[t].pc = "event" /\ thr'[t].pc # "event"

C29_HealthInRange ==
    [][\A i \in DOMAIN entities :
          /\ entities[i].health \in 0..MaxHealth(entities[i].kind)
          /\ entities'[i].health \in 0..MaxHealth(entities[i].kind)
          /\ entities'[i].health <= entities[i].health
          /\ last'.id = i =>
                /\ last'.alive <=> entities'[i].health # 0
                /\ last'.alive <=> entities'[i].task = entities[i].task
                /\ ~last'.alive => tasks'[entities'[i].task].kind = "die_and_drop"]_vars

\* A DamageEvent of an amount above the health the entity had left has been
\* handled: the health is 0 and the entity was reported not alive.
C29_Witness ==
    /\ last.op = "handle_damage"
    /\ last.before > 0
    /\ last.amount > last.before
    /\ ~last.alive
    /\ entities[last.id].health = 0

(***************************************************************************)
(* Properties of jobs whose entities are gone (HeroSpec).                  *)
(***************************************************************************)
\* The entities a job looks up in State when it is executed.
Subjects(job) ==
    CASE job.kind \in {"hunger", "motion"} -> {job.entity}
      [] job.kind = "damage" -> {job.dealer, job.receiver, job.tool}
      [] job.kind = "eat" -> {job.eater, job.food}
      [] OTHER -> {}

\* The Runner's thread executes a job of which a subject has been deleted.
ExecutesStale ==
    /\ thr["runner"].pc = "job"
    /\ thr'["runner"].pc # "job"
    /\ \E i \in Subjects(thr["runner"].job) : ~Exists(entities, i)

C31_MissingReceiverDropped ==
    [][\A t \in Threads :
          (Handles(t) /\ ~Exists(entities, thr[t].event.receiver)) =>
             /\ thr'[t].pc = "idle"
             /\ wire'[t] = wire[t]
             /\ entities' = entities
             /\ tasks' = tasks
             /\ queue' = queue]_vars

\* An event of a job is being dispatched to a receiver that was in State and
\* has been deleted, while other entries are waiting in the scheduler.
C31_Witness ==
    \E t \in Threads :
        /\ thr[t].pc = "event"
        /\ thr[t].event.receiver \in 1..3
        /\ ~Exists(entities, thr[t].event.receiver)
        /\ queue # <<>>

(***************************************************************************)
(* Properties of the Gateway (GatewaySpec).                                *)
(***************************************************************************)
\* C32: in an Engine step during which sendall raises for some sockets, no
\* exception leaves the Gateway, every action of the step reaches every
\* client whose socket does not fail, in the order of the step, and the
\* step's entities and scheduler entries are those of the step without
\* failures.
C32_SendFailureContained ==
    [][thr'["harbour"].exc \notin {"AttributeError", "AssertionError", "KeyError"} =>
          /\ last'.exc = "none"
          /\ thr'["harbour"].pc = "idle"
          /\ Len(last'.log) = Len(wire'["harbour"])
          /\ \A k \in DOMAIN last'.log :
                /\ last'.log[k].action = wire'["harbour"][k]
                /\ last'.log[k].to = connected \ last'.failing
          /\ \E w \in {HandleEventWhole(World(entities, tasks, nextId, queue, <<>>, "none"),
                                         last'.event, now)} :
                /\ entities' = w.ents
                /\ queue' = w.queue
                /\ wire'["harbour"] = w.wire]_vars

\* A step that broadcast two actions and changed the scheduler's entries
\* while the socket of the first client failed.
C32_Witness ==
    /\ last.op = "handle_event"
    /\ last.failing = {2}
    /\ Len(last.log) >= 2
    /\ \A k \in DOMAIN last.log : last.log[k].to = {3}
    /\ \E k \in DOMAIN queue : queue[k].handle = last.event.receiver

(***************************************************************************)
(* Properties of the ids (IdSpec).                                         *)
(***************************************************************************)
\* C33: the id an entity is added with by add_entity, craft_entity or the
\* harvest is the id of no entity that was in State, and every entity that
\* was in State and is in it afterwards is the entity it was, its hands and
\* its stack apart.
C33_IdsUnique ==
    [][/\ last'.id # NoId =>
             /\ last'.id \notin DOMAIN entities
             /\ last'.id \in DOMAIN entities'
       /\ \A i \in DOMAIN entities \cap DOMAIN entities' :
             /\ entities'[i].kind = entities[i].kind
             /\ entities'[i].position = entities[i].position
             /\ entities'[i].stored_by = entities[i].stored_by]_vars

\* After an earlier call, add_entity has given a new entity an id while the
\* State held at least five other entities.
C33_Witness ==
    /\ last.op = "add"
    /\ Exists(entities, last.id)
    /\ calls >= 2
    /\ Cardinality(DOMAIN entities) >= 6

C35_CraftResultExact ==
    (last.op = "craft" /\ last.exc = "none") =>
        /\ {last.created[k] : k \in DOMAIN last.created}
              = DOMAIN entities \ DOMAIN last.before
        /\ Len(last.created) = Cardinality(DOMAIN entities \ DOMAIN last.before)
        /\ {last.deleted[k] : k \in DOMAIN last.deleted}
              = DOMAIN last.before \ DOMAIN entities
        /\ Len(last.deleted) = Cardinality(DOMAIN last.before \ DOMAIN entities)

Sent(t) ==
    IF thr[t].pc \in {"job", "finish", "start"} /\ Len(wire'[t]) >= Len(wire[t])
    THEN SubSeq(wire'[t], Len(wire[t]) + 1, Len(wire'[t]))
    ELSE <<>>

\* The start of the DieAndDropTask of entity x has broadcast
\* ActorDeletionAction([x]), and x is still in State.
Announced(x) ==
    /\ tasks[entities[x].task].kind = "die_and_drop"
    /\ tasks[entities[x].task].started > 0

C39_EntriesHaveRunner ==
    ~(thr["runner"].pc = "exited" /\ queue # <<>>)

(***************************************************************************)
(* Properties of the hunger of an eater.                                   *)
(***************************************************************************)
\* C40: the hunger_value of every eater is at least 0 and at most its
\* max_capacity, after any sequence of ticks of the HungerDrainJob and of
\* absorptions of the EatJob.
C40_HungerInRange ==
    \A id \in DOMAIN entities :
       IsEater(entities[id].kind) =>
          /\ entities[id].hunger >= 0
          /\ entities[id].hunger <= HUNGER_MAX

====
